---- MODULE Spec2Model ----
(***************************************************************************)
(* Verification model of the archestra platform backend:                   *)
(*   - database retry wrapper (withDbRetry, wrapPoolWithRetry)             *)
(*   - label dictionary (AgentLabelModel) on a READ COMMITTED database     *)
(*   - secret encryption at rest (SecretModel, rotateSecretEncryptionKey)  *)
(*   - SSO providers (SsoProviderModel)                                    *)
(*   - A2A routes (AgentCard, JSON-RPC execution)                          *)
(*   - organization routes (appearance, logo, PATCH)                       *)
(*   - interactions (InteractionModel)                                     *)
(*   - agent access through teams (AgentTeamModel)                         *)
(*   - transient error classification on cause chains                      *)
(*   - frontend guards (WithAuthCheck, WithPermissions)                    *)
(*   - members and invitations (MemberModel, InvitationModel)              *)
(*   - theming (OrganizationThemeProvider) and the README dialog           *)
(*   - concurrent default-organization bootstrap                           *)
(* Each subsystem has its own specification over the shared variables.     *)
(***************************************************************************)
EXTENDS Integers, Sequences, FiniteSets, TLC

(***************************************************************************)
(* Generic helpers                                                         *)
(***************************************************************************)
Min(a, b) == IF a < b THEN a ELSE b

RECURSIVE Pow2(_)
Pow2(n) == IF n = 0 THEN 1 ELSE 2 * Pow2(n - 1)

Range(s) == {s[i] : i \in 1..Len(s)}

(***************************************************************************)
(* State                                                                   *)
(***************************************************************************)
\* retry wrapper
VARIABLES
    rpc,          \* position of the running call: idle, call, catch, sleep, returned, threw
    rmode,        \* "none", "direct" (withDbRetry(fn, opts)), "pool" (pool.query promise-style), "callback"
    rmaxRetries,  \* maxRetries of the withDbRetry frames of the running call
    rstack,       \* attempt counters of the active withDbRetry frames, outermost first
    rcalls,       \* outcomes of the invocations of the underlying fn / original query so far
    rerr,         \* error in flight (being caught or thrown), "none" otherwise
    rdelay,       \* delay of the sleep in progress
    rwrapped,     \* number of wrapPoolWithRetry calls made before the running call was issued
    poolLayers,   \* number of retry wrappers installed around pool.query
    poolMarked,   \* pool[RETRY_WRAPPED]
    wrapCalls     \* number of wrapPoolWithRetry(pool) calls made

varsRetry == <<rpc, rmode, rmaxRetries, rstack, rcalls, rerr, rdelay, rwrapped,
               poolLayers, poolMarked, wrapCalls>>

\* label dictionary
VARIABLES
    labelKeys,      \* label_keys rows   [id, key, ins, del]
    labelValues,    \* label_values rows [id, value, ins, del]
    agentLabels,    \* agent_labels rows [rid, agentId, keyId, valueId, ins, del]
    catalogLabels,  \* mcp_catalog_labels rows [catalogId, keyId, valueId, ins, del]
    goc,            \* stand-alone getOrCreateKey / getOrCreateValue callers
    sync,           \* syncAgentLabels callers
    prune,          \* pruneKeysAndValues runs
    pendingPrunes,  \* pruneKeysAndValues() calls made whose first statement has not run yet
    syncCalls,      \* syncAgentLabels calls made so far
    pruneCalls,     \* direct pruneKeysAndValues() calls made so far
    syncCommits,    \* per agent: number of committed syncAgentLabels transactions
    lastCommitted   \* per agent: the label list of the sync transaction that committed last

varsLabels == <<labelKeys, labelValues, agentLabels, catalogLabels, goc, sync,
                prune, pendingPrunes, syncCalls, pruneCalls, syncCommits, lastCommitted>>

\* secrets at rest
VARIABLES
    secretsTable,   \* committed rows of the secret table [id, name, secret]
    rot,            \* the run of rotateSecretEncryptionKey
    secretNextId,   \* id the next inserted secret row gets
    secretOps,      \* SecretModel.update / SecretModel.delete calls made so far
    rotations,      \* rotateSecretEncryptionKey calls made so far
    secretTouched,  \* ids of the rows SecretModel.create created or SecretModel.update updated
    secretWritten,  \* ids of the rows whose secret column SecretModel.create or update wrote
    secretRead      \* what the latest SecretModel call handed to its caller

varsSecrets == <<secretsTable, rot, secretNextId, secretOps, rotations,
                 secretTouched, secretWritten, secretRead>>

\* SSO providers
VARIABLES
    ssoProviders,   \* sso_provider rows
    sso,            \* SsoProviderModel callers
    ssoNextId,      \* id the next provider row gets
    ssoCalls        \* SsoProviderModel calls made so far

varsSso == <<ssoProviders, sso, ssoNextId, ssoCalls>>

\* A2A routes
VARIABLES
    a2a             \* the request an A2A route handler is serving

varsA2A == <<a2a>>

VARIABLES
    organizationsTable, orgReply

varsOrg == <<organizationsTable, orgReply>>

VARIABLES
    interactionsTable, interactionRead

varsInteractions == <<interactionsTable, interactionRead>>

VARIABLES
    agentsTable, teamMembersTable, agentTeamsTable, accessRead

varsAgentTeams == <<agentsTable, teamMembersTable, agentTeamsTable, accessRead>>

VARIABLES
    errChain, errCyclic, errResult

varsClassify == <<errChain, errCyclic, errResult>>

VARIABLES
    wac, wacRendered, wacPushed

varsAuthCheck == <<wac, wacRendered, wacPushed>>

VARIABLES
    wpPermissions, wpGranted, wpHasPermissions, wpChecks, wpRendered

varsWithPermissions == <<wpPermissions, wpGranted, wpHasPermissions, wpChecks, wpRendered>>

VARIABLES
    membersTable, memberCall

varsMembers == <<membersTable, memberCall>>

VARIABLES
    appearance, previewTheme, previewFont, colorMode, rootStyle, themeEffect

varsTheme == <<appearance, previewTheme, previewFont, colorMode, rootStyle, themeEffect>>

VARIABLES
    invitationsTable, usersRole, sessionsActiveOrganization, acceptCall

varsInvitations == <<invitationsTable, usersRole, sessionsActiveOrganization, acceptCall>>

VARIABLES
    orgCalls

varsOrgCalls == <<orgCalls>>

VARIABLES
    readmeServer, readmeContent, readmeLoading, readmeError, readmeFetches, readmeFetchCount

varsReadme == <<readmeServer, readmeContent, readmeLoading, readmeError, readmeFetches, readmeFetchCount>>

RetryFrame == UNCHANGED <<varsLabels, varsSecrets, varsSso, varsA2A, varsOrg, varsInteractions, varsAgentTeams, varsClassify, varsAuthCheck, varsWithPermissions, varsMembers, varsTheme, varsInvitations, varsOrgCalls, varsReadme>>
LabelsFrame == UNCHANGED <<varsRetry, varsSecrets, varsSso, varsA2A, varsOrg, varsInteractions, varsAgentTeams, varsClassify, varsAuthCheck, varsWithPermissions, varsMembers, varsTheme, varsInvitations, varsOrgCalls, varsReadme>>
SecretsFrame == UNCHANGED <<varsRetry, varsLabels, varsSso, varsA2A, varsOrg, varsInteractions, varsAgentTeams, varsClassify, varsAuthCheck, varsWithPermissions, varsMembers, varsTheme, varsInvitations, varsOrgCalls, varsReadme>>

(***************************************************************************)
(* ---------------------------  RETRY WRAPPER  --------------------------- *)
(***************************************************************************)

\* Bounds of the retry model
MaxN == 2            \* largest explicit maxRetries option tried
MaxWrapCalls == 2    \* how often wrapPoolWithRetry is called on the pool

\* Program constants
MAX_RETRIES == 3
BASE_DELAY_MS == 100
MAX_DELAY_MS == 2000
MAX_CAUSE_DEPTH == 5

TRANSIENT_PG_CODES ==
    {"08000", "08001", "08003", "08004", "08006", "57P01", "57P02", "57P03"}

TRANSIENT_ERROR_PATTERNS_NoTimeoutExpired ==
    { <<"ECONNREFUSED">>, <<"ECONNRESET">>, <<"EPIPE">>, <<"ETIMEDOUT">>,
      <<"Connection", "terminated">> }

\* Messages are sequences of words; a pattern is a sequence of words too.
TRANSIENT_ERROR_PATTERNS ==
    { <<"ECONNREFUSED">>, <<"ECONNRESET">>, <<"EPIPE">>, <<"ETIMEDOUT">>,
      <<"Connection", "terminated">>, <<"timeout", "expired">> }

\* message.includes(pattern): pattern occurs as a contiguous run of words
Includes(message, pattern) ==
    \E i \in 0..(Len(message) - Len(pattern)) :
        \A j \in 1..Len(pattern) : message[i + j] = pattern[j]

\* The values a failing call may throw.  Each is a node of a heap so that a
\* cause can point at another node; cause = 0 means "no cause", code = ""
\* means "no code"; isError = FALSE is a thrown non-Error value.
ErrorHeap ==
    [ e1 |-> [isError |-> TRUE, code |-> "",
              message |-> <<"connect", "ECONNREFUSED", "10.2.124.50:5432">>,
              cause |-> "none"],
      e2 |-> [isError |-> TRUE, code |-> "23505",
              message |-> <<"duplicate", "key", "value", "violates", "unique", "constraint">>,
              cause |-> "none"],
      e3 |-> [isError |-> TRUE, code |-> "08006",
              message |-> <<"db", "error">>,
              cause |-> "none"],
      e4 |-> [isError |-> TRUE, code |-> "",
              message |-> <<"Failed", "query:", "SELECT", "1">>,
              cause |-> "e1"],
      e5 |-> [isError |-> FALSE, code |-> "",
              message |-> <<"ECONNREFUSED">>,
              cause |-> "none"],
      unreachable |-> [isError |-> TRUE, code |-> "",
              message |-> <<"withDbRetry:", "unreachable">>,
              cause |-> "none"] ]

\* what fn (or the original query) may reject with
ErrIds == DOMAIN ErrorHeap \ {"unreachable"}

\* depth > MAX_CAUSE_DEPTH
DepthExceededLate(depth) == depth > MAX_CAUSE_DEPTH + 1

DepthExceeded(depth) == depth > MAX_CAUSE_DEPTH

\* isTransientDbError(error, depth) over a heap of thrown values; a falsy
\* cause or an absent value is a reference outside the heap
RECURSIVE isTransientDbErrorIn(_, _, _)
isTransientDbErrorIn(heap, error, depth) ==
    IF error \notin DOMAIN heap THEN FALSE
    ELSE LET e == heap[error] IN
         IF ~e.isError THEN FALSE
         ELSE IF DepthExceeded(depth) THEN FALSE
         ELSE IF e.code # "" /\ e.code \in TRANSIENT_PG_CODES THEN TRUE
         ELSE IF \E p \in TRANSIENT_ERROR_PATTERNS : Includes(e.message, p) THEN TRUE
         ELSE IF e.cause \in DOMAIN heap THEN isTransientDbErrorIn(heap, e.cause, depth + 1)
         ELSE FALSE

\* the number of errors whose code and message isTransientDbError examines
RECURSIVE InspectedErrors(_, _, _)
InspectedErrors(heap, error, depth) ==
    IF error \notin DOMAIN heap THEN 0
    ELSE LET e == heap[error] IN
         IF ~e.isError THEN 0
         ELSE IF DepthExceeded(depth) THEN 0
         ELSE IF e.code # "" /\ e.code \in TRANSIENT_PG_CODES THEN 1
         ELSE IF \E p \in TRANSIENT_ERROR_PATTERNS : Includes(e.message, p) THEN 1
         ELSE IF e.cause \in DOMAIN heap THEN 1 + InspectedErrors(heap, e.cause, depth + 1)
         ELSE 1

isTransientDbErrorAt(error, depth) == isTransientDbErrorIn(ErrorHeap, error, depth)

isTransientDbError(error) == isTransientDbErrorAt(error, 0)

\* calculateBackoff(attempt) with jitter = r/4 of the exponential delay, r in 0..1
\* sampled at 0, 1/2 and (just under) 1: jitterQuarter in {0, 1, 2} eighths.
calculateBackoff(attempt, jitterEighths) ==
    LET exponentialDelay == BASE_DELAY_MS * Pow2(attempt)
        jitter == (jitterEighths * exponentialDelay) \div 8
    IN  Min(exponentialDelay + jitter, MAX_DELAY_MS)

\* the catch clause's condition of withDbRetry
ShouldRetryOffByOne(error, attempt, maxRetries) ==
    isTransientDbError(error) /\ attempt + 1 < maxRetries

ShouldRetryAnyError(error, attempt, maxRetries) ==
    attempt < maxRetries

ShouldRetry(error, attempt, maxRetries) ==
    isTransientDbError(error) /\ attempt < maxRetries


InitRetry ==
    /\ rpc = "idle"
    /\ rmode = "none"
    /\ rmaxRetries = MAX_RETRIES
    /\ rstack = <<>>
    /\ rcalls = <<>>
    /\ rerr = "none"
    /\ rdelay = 0
    /\ rwrapped = 0
    /\ poolLayers = 0
    /\ poolMarked = FALSE
    /\ wrapCalls = 0

RetryIdle == rpc \in {"idle", "returned", "threw"}

\* the guard of wrapPoolWithRetry
AlreadyWrappedNever == FALSE

AlreadyWrapped == poolMarked

\* wrapPoolWithRetry(pool)
WrapPoolWithRetry ==
    /\ RetryIdle
    /\ wrapCalls < MaxWrapCalls
    /\ wrapCalls' = wrapCalls + 1
    /\ IF AlreadyWrapped
         THEN UNCHANGED <<poolLayers, poolMarked>>
         ELSE /\ poolLayers' = poolLayers + 1
              /\ poolMarked' = TRUE
    /\ UNCHANGED <<rpc, rmode, rmaxRetries, rstack, rcalls, rerr, rdelay, rwrapped>>
    /\ RetryFrame

\* withDbRetry(fn) / withDbRetry(fn, {maxRetries: n}): enter the loop, attempt = 0
WithDbRetryStart ==
    /\ RetryIdle
    /\ \E n \in (0..MaxN) \cup {MAX_RETRIES} :
          rmaxRetries' = n
    /\ rmode' = "direct"
    /\ rstack' = <<0>>
    /\ rcalls' = <<>>
    /\ rerr' = "none"
    /\ rdelay' = 0
    /\ rwrapped' = wrapCalls
    /\ rpc' = "call"
    /\ UNCHANGED <<poolLayers, poolMarked, wrapCalls>>
    /\ RetryFrame

\* pool.query(text, values): every installed wrapper enters withDbRetry with the
\* default maxRetries; an unwrapped pool calls the original query directly.
PoolQueryPromise ==
    /\ RetryIdle
    /\ rmode' = "pool"
    /\ rmaxRetries' = MAX_RETRIES
    /\ rstack' = [i \in 1..poolLayers |-> 0]
    /\ rcalls' = <<>>
    /\ rerr' = "none"
    /\ rdelay' = 0
    /\ rwrapped' = wrapCalls
    /\ rpc' = "call"
    /\ UNCHANGED <<poolLayers, poolMarked, wrapCalls>>
    /\ RetryFrame

\* pool.query(text, callback): every wrapper passes the call through
PoolQueryCallback ==
    /\ RetryIdle
    /\ rmode' = "callback"
    /\ rmaxRetries' = MAX_RETRIES
    /\ rstack' = <<>>
    /\ \E o \in {"ok"} \cup ErrIds : rcalls' = <<o>>
    /\ rerr' = "none"
    /\ rdelay' = 0
    /\ rwrapped' = wrapCalls
    /\ rpc' = "returned"
    /\ UNCHANGED <<poolLayers, poolMarked, wrapCalls>>
    /\ RetryFrame

\* the innermost frame invokes fn (the original query); it resolves
FnResolves ==
    /\ rpc = "call"
    /\ rcalls' = Append(rcalls, "ok")
    /\ rstack' = <<>>
    /\ rpc' = "returned"
    /\ UNCHANGED <<rmode, rmaxRetries, rerr, rdelay, rwrapped, poolLayers, poolMarked, wrapCalls>>
    /\ RetryFrame

\* the innermost frame invokes fn (the original query); it rejects with e
FnRejects ==
    /\ rpc = "call"
    /\ \E e \in ErrIds :
          /\ rcalls' = Append(rcalls, e)
          /\ rerr' = e
    /\ rpc' = IF rstack = <<>> THEN "threw" ELSE "catch"
    /\ UNCHANGED <<rmode, rmaxRetries, rstack, rdelay, rwrapped, poolLayers, poolMarked, wrapCalls>>
    /\ RetryFrame

\* catch (error) of the innermost active frame: retry after a backoff, or rethrow
CatchRetry ==
    /\ rpc = "catch"
    /\ ShouldRetry(rerr, rstack[Len(rstack)], rmaxRetries)
    /\ \E j \in 0..2 : rdelay' = calculateBackoff(rstack[Len(rstack)], j)
    /\ rpc' = "sleep"
    /\ UNCHANGED <<rmode, rmaxRetries, rstack, rcalls, rerr, rwrapped, poolLayers, poolMarked, wrapCalls>>
    /\ RetryFrame

CatchRethrow ==
    /\ rpc = "catch"
    /\ ~ShouldRetry(rerr, rstack[Len(rstack)], rmaxRetries)
    /\ rstack' = SubSeq(rstack, 1, Len(rstack) - 1)
    /\ rpc' = IF Len(rstack) = 1 THEN "threw" ELSE "catch"
    /\ UNCHANGED <<rmode, rmaxRetries, rcalls, rerr, rdelay, rwrapped, poolLayers, poolMarked, wrapCalls>>
    /\ RetryFrame

\* the sleep ends; continue: attempt++, and the loop test attempt <= maxRetries.
\* The frame calls its fn again: for an outer wrapper that is the wrapped query
\* below it, which enters its own withDbRetry afresh.
FramesBelow(depth) ==
    LET total == IF rmode = "pool" THEN poolLayers ELSE 1
    IN  [i \in 1..(total - depth) |-> 0]

SleepDone ==
    /\ rpc = "sleep"
    /\ LET top == Len(rstack)
           next == rstack[top] + 1
       IN  IF next <= rmaxRetries
             THEN /\ rstack' = [rstack EXCEPT ![top] = next] \o FramesBelow(top)
                  /\ rerr' = "none"
                  /\ rpc' = "call"
             ELSE \* "withDbRetry: unreachable"
                  /\ rstack' = SubSeq(rstack, 1, top - 1)
                  /\ rerr' = "unreachable"
                  /\ rpc' = IF top = 1 THEN "threw" ELSE "catch"
    /\ rdelay' = 0
    /\ UNCHANGED <<rmode, rmaxRetries, rcalls, rwrapped, poolLayers, poolMarked, wrapCalls>>
    /\ RetryFrame

NextRetry ==
    \/ WrapPoolWithRetry
    \/ WithDbRetryStart
    \/ PoolQueryPromise
    \/ PoolQueryCallback
    \/ FnResolves
    \/ FnRejects
    \/ CatchRetry
    \/ CatchRethrow
    \/ SleepDone

(***************************************************************************)
(* --------------------------  LABEL DICTIONARY  ------------------------- *)
(* AgentLabelModel on PostgreSQL at the default isolation level (READ      *)
(* COMMITTED).  A row carries the transaction that inserted it and has not *)
(* committed yet (ins, 0 once committed) and the transaction that deleted  *)
(* it and has not committed yet (del, 0 if none).  A transaction is named  *)
(* by the process that runs it.  Every awaited statement is one step; a    *)
(* statement that has to wait for a row lock is not enabled until the lock *)
(* holder commits or rolls back.                                           *)
(***************************************************************************)

\* Bounds of the label model
MaxGocCalls == 3        \* concurrent stand-alone getOrCreateKey / getOrCreateValue callers
MaxSyncCalls == 2       \* syncAgentLabels calls made in all
MaxExplicitPrunes == 1  \* direct pruneKeysAndValues() calls made in all

GocProcs == 1..MaxGocCalls
SyncProcs == {11, 12}
PruneProcs == {21, 22}

AgentIds == {"a1", "a2"}
LabelLists ==
    { <<>>,
      << [key |-> "env", value |-> "prod"] >>,
      << [key |-> "region", value |-> "us"], [key |-> "team", value |-> "us"] >> }
KeyStrings == {"env", "region", "team"}
ValueStrings == {"prod", "us"}


\* ---- READ COMMITTED row visibility and locks ----

\* the rows a statement of transaction p sees: committed rows (a delete that has
\* not committed does not hide them) and p's own inserts, minus p's own deletes
VisibleTo(r, p) == (r.ins = 0 \/ r.ins = p) /\ r.del # p

Visible(tbl, p) == {r \in tbl : VisibleTo(r, p)}

\* r is inserted or deleted by a transaction other than p that is still open
LockedByOther(r, p) == (r.ins # 0 /\ r.ins # p) \/ (r.del # 0 /\ r.del # p)

\* COMMIT of transaction p
CommitTable(tbl, p) ==
    {[r EXCEPT !.ins = IF r.ins = p THEN 0 ELSE r.ins] : r \in {x \in tbl : x.del # p}}

\* ROLLBACK of transaction p
RollbackTable(tbl, p) ==
    {[r EXCEPT !.del = IF r.del = p THEN 0 ELSE r.del] : r \in {x \in tbl : x.ins # p}}

\* DELETE of the rows `rows` by transaction p (tx = 0: autocommit)
DeleteRows(tbl, rows, p) ==
    {IF r \in rows THEN [r EXCEPT !.del = p] ELSE r : r \in {x \in tbl : ~(x \in rows /\ x.ins = p)}}

\* Fresh row ids (uuid defaultRandom): a row's id is made of the number of the
\* call that inserts it and of its place in that call, so that no two inserts
\* share an id and no id is used again.  Ids below 10 are the initial rows.
GocRowId(p) == 100 + p
SyncRowId(call, i, slot) == 10 * call + 3 * (i - 1) + slot

IdleGoc == [pc |-> "idle", table |-> "none", str |-> "", result |-> 0]
IdleSync == [pc |-> "idle", call |-> 0, agentId |-> "", labels |-> <<>>, i |-> 0, keyId |-> 0,
             valueId |-> 0, labelInserts |-> <<>>, targets |-> {}]
IdlePrune == [pc |-> "idle", orphanedKeys |-> {}, orphanedValues |-> {}, targets |-> {},
              keysSeen |-> {}, keyRefsSeen |-> {}, valuesSeen |-> {}, valueRefsSeen |-> {},
              deletedKeys |-> 0, deletedValues |-> 0]

\* The database a run starts from: empty, or one where agent a1 carries
\* env=prod and a catalog item carries region=us.
InitialDatabases ==
    { [keys |-> {}, values |-> {}, agent |-> {}, catalog |-> {}],
      [keys |-> {[id |-> 1, key |-> "env", ins |-> 0, del |-> 0],
                 [id |-> 2, key |-> "region", ins |-> 0, del |-> 0]},
       values |-> {[id |-> 3, value |-> "prod", ins |-> 0, del |-> 0],
                   [id |-> 4, value |-> "us", ins |-> 0, del |-> 0]},
       agent |-> {[rid |-> 5, agentId |-> "a1", keyId |-> 1, valueId |-> 3, ins |-> 0, del |-> 0]},
       catalog |-> {[catalogId |-> "c1", keyId |-> 2, valueId |-> 4, ins |-> 0, del |-> 0]}] }

InitLabels ==
    /\ \E d \in InitialDatabases :
          /\ labelKeys = d.keys
          /\ labelValues = d.values
          /\ agentLabels = d.agent
          /\ catalogLabels = d.catalog
    /\ goc = [p \in GocProcs |-> IdleGoc]
    /\ sync = [p \in SyncProcs |-> IdleSync]
    /\ prune = [p \in PruneProcs |-> IdlePrune]
    /\ pendingPrunes = 0
    /\ syncCalls = 0
    /\ pruneCalls = 0
    /\ syncCommits = [a \in AgentIds |-> 0]
    /\ lastCommitted = [a \in AgentIds |-> <<>>]

\* ---- getOrCreateKey / getOrCreateValue ----

\* INSERT ... ON CONFLICT DO NOTHING on the unique string column has to wait
\* while a row with the same string is being inserted or deleted by another
\* open transaction
KeyInsertBlocked(key, p) == \E r \in labelKeys : r.key = key /\ LockedByOther(r, p)
ValueInsertBlocked(value, p) == \E r \in labelValues : r.value = value /\ LockedByOther(r, p)

\* insert(labelKeysTable).values({key}).onConflictDoNothing(): tx is the open
\* transaction the row belongs to until commit, 0 for an autocommit statement
InsertKeyAlways(key, p, tx, id) ==
    labelKeys \cup {[id |-> id, key |-> key, ins |-> tx, del |-> 0]}

InsertKeyOnConflictDoNothing(key, p, tx, id) ==
    IF \E r \in Visible(labelKeys, p) : r.key = key
      THEN labelKeys
      ELSE labelKeys \cup {[id |-> id, key |-> key, ins |-> tx, del |-> 0]}

InsertValueOnConflictDoNothing(value, p, tx, id) ==
    IF \E r \in Visible(labelValues, p) : r.value = value
      THEN labelValues
      ELSE labelValues \cup {[id |-> id, value |-> value, ins |-> tx, del |-> 0]}

\* select({id}).from(labelKeysTable).where(eq(key)).limit(1): the ids found
SelectKeyIds(key, p) == {r.id : r \in {x \in Visible(labelKeys, p) : x.key = key}}
SelectValueIds(value, p) == {r.id : r \in {x \in Visible(labelValues, p) : x.value = value}}

\* stand-alone getOrCreateKey(str) / getOrCreateValue(str): the insert
GocInsert(p) ==
    /\ goc[p].pc = "idle"
    /\ \E t \in {"key", "value"} :
       \E str \in (IF t = "key" THEN {"env"} ELSE {"prod"}) :
          /\ IF t = "key" THEN ~KeyInsertBlocked(str, p) ELSE ~ValueInsertBlocked(str, p)
          /\ IF t = "key"
               THEN /\ labelKeys' = InsertKeyOnConflictDoNothing(str, p, 0, GocRowId(p))
                    /\ UNCHANGED labelValues
               ELSE /\ labelValues' = InsertValueOnConflictDoNothing(str, p, 0, GocRowId(p))
                    /\ UNCHANGED labelKeys
          /\ goc' = [goc EXCEPT ![p] = [pc |-> "select", table |-> t, str |-> str, result |-> 0]]
    /\ UNCHANGED <<agentLabels, catalogLabels, sync, prune, pendingPrunes, syncCalls,
                   pruneCalls, syncCommits, lastCommitted>>
    /\ LabelsFrame

\* stand-alone getOrCreateKey / getOrCreateValue: the select; result.id throws
\* a TypeError when no row comes back
GocSelect(p) ==
    /\ goc[p].pc = "select"
    /\ LET ids == IF goc[p].table = "key" THEN SelectKeyIds(goc[p].str, p)
                  ELSE SelectValueIds(goc[p].str, p)
       IN  IF ids = {}
             THEN goc' = [goc EXCEPT ![p].pc = "threw"]
             ELSE \E id \in ids : goc' = [goc EXCEPT ![p].pc = "returned", ![p].result = id]
    /\ UNCHANGED <<labelKeys, labelValues, agentLabels, catalogLabels, sync, prune,
                   pendingPrunes, syncCalls, pruneCalls, syncCommits, lastCommitted>>
    /\ LabelsFrame

NextGetOrCreate == \E p \in GocProcs : GocInsert(p) \/ GocSelect(p)


\* ---- syncAgentLabels ----

SyncFree(p) == sync[p].pc \in {"idle", "rejected"}

LabelsUnchangedBySync ==
    /\ UNCHANGED <<catalogLabels, goc, prune, pruneCalls>>
    /\ LabelsFrame

\* the transaction callback threw: drizzle rolls the transaction back and
\* syncAgentLabels rejects before it reaches the pruneKeysAndValues() call
SyncRollback(p) ==
    /\ labelKeys' = RollbackTable(labelKeys, p)
    /\ labelValues' = RollbackTable(labelValues, p)
    /\ agentLabels' = RollbackTable(agentLabels, p)
    /\ sync' = [sync EXCEPT ![p] = [IdleSync EXCEPT !.pc = "rejected"]]

AfterDelete(labels) == IF Len(labels) > 0 THEN "key_insert" ELSE "commit"

\* syncAgentLabels(agentId, labels): db.transaction begins and runs
\* tx.delete(agentLabelsTable).where(eq(agentId)).  The delete works on the
\* rows its snapshot shows; when one of them is being deleted by another open
\* transaction it has to wait for that transaction to end.
SyncBegin(p) ==
    /\ SyncFree(p)
    /\ \A p2 \in SyncProcs : SyncFree(p2) => p <= p2   \* which free connection runs it does not matter
    /\ syncCalls < MaxSyncCalls
    /\ \E a \in AgentIds, labels \in LabelLists :
          LET targets == {r \in Visible(agentLabels, p) : r.agentId = a} IN
          IF \E r \in targets : LockedByOther(r, p)
            THEN /\ sync' = [sync EXCEPT ![p] =
                        [IdleSync EXCEPT !.pc = "delete_wait", !.call = syncCalls + 1, !.agentId = a,
                                         !.labels = labels, !.targets = {r.rid : r \in targets}]]
                 /\ UNCHANGED agentLabels
            ELSE /\ sync' = [sync EXCEPT ![p] =
                        [IdleSync EXCEPT !.pc = AfterDelete(labels), !.call = syncCalls + 1, !.agentId = a,
                                         !.labels = labels, !.i = 1]]
                 /\ agentLabels' = DeleteRows(agentLabels, targets, p)
    /\ syncCalls' = syncCalls + 1
    /\ UNCHANGED <<labelKeys, labelValues, pendingPrunes, syncCommits, lastCommitted>>
    /\ LabelsUnchangedBySync

\* the delete resumes once the lock holders have ended: rows whose deletion
\* committed are skipped, rows committed after the statement's snapshot was taken
\* are not seen
SyncDeleteResume(p) ==
    /\ sync[p].pc = "delete_wait"
    /\ LET targets == {r \in agentLabels : r.rid \in sync[p].targets} IN
       /\ ~\E r \in targets : LockedByOther(r, p)
       /\ agentLabels' = DeleteRows(agentLabels, targets, p)
    /\ sync' = [sync EXCEPT ![p].pc = AfterDelete(sync[p].labels), ![p].i = 1,
                            ![p].targets = {}]
    /\ UNCHANGED <<labelKeys, labelValues, pendingPrunes, syncCalls, syncCommits,
                   lastCommitted>>
    /\ LabelsUnchangedBySync

\* getOrCreateKey(label.key, tx): the insert
SyncKeyInsert(p) ==
    /\ sync[p].pc = "key_insert"
    /\ LET key == sync[p].labels[sync[p].i].key IN
       /\ ~KeyInsertBlocked(key, p)
       /\ labelKeys' = InsertKeyOnConflictDoNothing(key, p, p, SyncRowId(sync[p].call, sync[p].i, 1))
    /\ sync' = [sync EXCEPT ![p].pc = "key_select"]
    /\ UNCHANGED <<labelValues, agentLabels, pendingPrunes, syncCalls, syncCommits,
                   lastCommitted>>
    /\ LabelsUnchangedBySync

\* getOrCreateKey(label.key, tx): the select and result.id
SyncKeySelect(p) ==
    /\ sync[p].pc = "key_select"
    /\ LET ids == SelectKeyIds(sync[p].labels[sync[p].i].key, p) IN
       IF ids = {}
         THEN SyncRollback(p)
         ELSE /\ \E id \in ids :
                    sync' = [sync EXCEPT ![p].pc = "value_insert", ![p].keyId = id]
              /\ UNCHANGED <<labelKeys, labelValues, agentLabels>>
    /\ UNCHANGED <<pendingPrunes, syncCalls, syncCommits, lastCommitted>>
    /\ LabelsUnchangedBySync

\* getOrCreateValue(label.value, tx): the insert
SyncValueInsert(p) ==
    /\ sync[p].pc = "value_insert"
    /\ LET value == sync[p].labels[sync[p].i].value IN
       /\ ~ValueInsertBlocked(value, p)
       /\ labelValues' = InsertValueOnConflictDoNothing(value, p, p, SyncRowId(sync[p].call, sync[p].i, 2))
    /\ sync' = [sync EXCEPT ![p].pc = "value_select"]
    /\ UNCHANGED <<labelKeys, agentLabels, pendingPrunes, syncCalls, syncCommits,
                   lastCommitted>>
    /\ LabelsUnchangedBySync

\* getOrCreateValue(label.value, tx): the select and result.id, then
\* labelInserts.push and the next loop iteration
SyncValueSelect(p) ==
    /\ sync[p].pc = "value_select"
    /\ LET ids == SelectValueIds(sync[p].labels[sync[p].i].value, p)
           last == sync[p].i = Len(sync[p].labels)
       IN
       IF ids = {}
         THEN SyncRollback(p)
         ELSE /\ \E id \in ids :
                    sync' = [sync EXCEPT
                        ![p].pc = IF last THEN "junction_insert" ELSE "key_insert",
                        ![p].i = IF last THEN sync[p].i ELSE sync[p].i + 1,
                        ![p].valueId = id,
                        ![p].labelInserts = Append(sync[p].labelInserts,
                            [agentId |-> sync[p].agentId, keyId |-> sync[p].keyId,
                             valueId |-> id])]
              /\ UNCHANGED <<labelKeys, labelValues, agentLabels>>
    /\ UNCHANGED <<pendingPrunes, syncCalls, syncCommits, lastCommitted>>
    /\ LabelsUnchangedBySync

\* tx.insert(agentLabelsTable).values(labelInserts)
SyncJunctionInsert(p) ==
    /\ sync[p].pc = "junction_insert"
    /\ LET ins == sync[p].labelInserts IN
       /\ agentLabels' = agentLabels \cup
              {[rid |-> SyncRowId(sync[p].call, k, 3), agentId |-> ins[k].agentId, keyId |-> ins[k].keyId,
                valueId |-> ins[k].valueId, ins |-> p, del |-> 0] : k \in 1..Len(ins)}
    /\ sync' = [sync EXCEPT ![p].pc = "commit"]
    /\ UNCHANGED <<labelKeys, labelValues, pendingPrunes, syncCalls, syncCommits,
                   lastCommitted>>
    /\ LabelsUnchangedBySync

\* the transaction commits; syncAgentLabels then starts pruneKeysAndValues()
\* without awaiting it and resolves
SyncCommit(p) ==
    /\ sync[p].pc = "commit"
    /\ labelKeys' = CommitTable(labelKeys, p)
    /\ labelValues' = CommitTable(labelValues, p)
    /\ agentLabels' = CommitTable(agentLabels, p)
    /\ syncCommits' = [syncCommits EXCEPT ![sync[p].agentId] = @ + 1]
    /\ lastCommitted' = [lastCommitted EXCEPT ![sync[p].agentId] = sync[p].labelInserts]
    /\ pendingPrunes' = pendingPrunes + 1
    /\ sync' = [sync EXCEPT ![p] = IdleSync]
    /\ UNCHANGED syncCalls
    /\ LabelsUnchangedBySync

\* ---- pruneKeysAndValues ----

PruneFree(q) == prune[q].pc = "idle"

LabelsUnchangedByPrune ==
    /\ UNCHANGED <<agentLabels, catalogLabels, goc, sync, syncCalls, syncCommits,
                   lastCommitted>>
    /\ LabelsFrame

\* a direct pruneKeysAndValues() call
PruneCall ==
    /\ pruneCalls < MaxExplicitPrunes
    /\ pruneCalls' = pruneCalls + 1
    /\ pendingPrunes' = pendingPrunes + 1
    /\ UNCHANGED <<labelKeys, labelValues, prune>>
    /\ LabelsUnchangedByPrune

\* the rows a LEFT JOIN pairs with the dictionary row `id` on column col: the
\* matching junction rows, or one all-NULL row (0) when there is none
NullJunctionRow == [keyId |-> 0, valueId |-> 0]

LeftJoin(tbl, col, id, q) ==
    LET matches == {r \in Visible(tbl, q) : r[col] = id} IN
    IF matches = {} THEN {NullJunctionRow}
    ELSE {[keyId |-> r.keyId, valueId |-> r.valueId] : r \in matches}

\* select label_keys.id ... leftJoin(agent_labels) leftJoin(mcp_catalog_labels)
\* where isNull(agent_labels.keyId) and isNull(mcp_catalog_labels.keyId)
OrphanedKeysAgentOnly(q) ==
    {k.id : k \in {x \in Visible(labelKeys, q) :
        \E a \in LeftJoin(agentLabels, "keyId", x.id, q) : a.keyId = 0}}

OrphanedKeys(q) ==
    {k.id : k \in {x \in Visible(labelKeys, q) :
        \E a \in LeftJoin(agentLabels, "keyId", x.id, q),
           c \in LeftJoin(catalogLabels, "keyId", x.id, q) :
             a.keyId = 0 /\ c.keyId = 0}}

OrphanedValues(q) ==
    {v.id : v \in {x \in Visible(labelValues, q) :
        \E a \in LeftJoin(agentLabels, "valueId", x.id, q),
           c \in LeftJoin(catalogLabels, "valueId", x.id, q) :
             a.valueId = 0 /\ c.valueId = 0}}

\* what the statement's snapshot holds (history, for the claims): the
\* dictionary rows and the ids the two junction tables reference
ReferencedIds(col, q) ==
    {r[col] : r \in Visible(agentLabels, q) \cup Visible(catalogLabels, q)}

\* db.transaction begins; the orphaned-keys query
PruneSelectKeys(q) ==
    /\ PruneFree(q)
    /\ \A q2 \in PruneProcs : PruneFree(q2) => q <= q2
    /\ pendingPrunes > 0
    /\ pendingPrunes' = pendingPrunes - 1
    /\ prune' = [prune EXCEPT ![q] =
            [IdlePrune EXCEPT !.pc = "select_values",
                              !.orphanedKeys = OrphanedKeys(q),
                              !.keysSeen = {r.id : r \in Visible(labelKeys, q)},
                              !.keyRefsSeen = ReferencedIds("keyId", q)]]
    /\ UNCHANGED <<labelKeys, labelValues, pruneCalls>>
    /\ LabelsUnchangedByPrune

AfterSelects(orphanedKeys, orphanedValues) ==
    IF orphanedKeys # {} THEN "delete_keys"
    ELSE IF orphanedValues # {} THEN "delete_values"
    ELSE "commit"

\* the orphaned-values query
PruneSelectValues(q) ==
    /\ prune[q].pc = "select_values"
    /\ prune' = [prune EXCEPT
            ![q].pc = AfterSelects(prune[q].orphanedKeys, OrphanedValues(q)),
            ![q].orphanedValues = OrphanedValues(q),
            ![q].valuesSeen = {r.id : r \in Visible(labelValues, q)},
            ![q].valueRefsSeen = ReferencedIds("valueId", q)]
    /\ UNCHANGED <<labelKeys, labelValues, pendingPrunes, pruneCalls>>
    /\ LabelsUnchangedByPrune

\* tx.delete(labelKeysTable).where(inArray(id, keyIds)); waits for a row that
\* another open transaction is deleting
PruneDeleteKeys(q) ==
    /\ prune[q].pc = "delete_keys"
    /\ LET targets == {r \in Visible(labelKeys, q) : r.id \in prune[q].orphanedKeys} IN
       /\ ~\E r \in targets : LockedByOther(r, q)
       /\ labelKeys' = DeleteRows(labelKeys, targets, q)
       /\ prune' = [prune EXCEPT
               ![q].pc = AfterSelects({}, prune[q].orphanedValues),
               ![q].deletedKeys = Cardinality(targets),
               ![q].targets = {r.id : r \in targets}]
    /\ UNCHANGED <<labelValues, pendingPrunes, pruneCalls>>
    /\ LabelsUnchangedByPrune

\* tx.delete(labelValuesTable).where(inArray(id, valueIds))
PruneDeleteValues(q) ==
    /\ prune[q].pc = "delete_values"
    /\ LET targets == {r \in Visible(labelValues, q) : r.id \in prune[q].orphanedValues} IN
       /\ ~\E r \in targets : LockedByOther(r, q)
       /\ labelValues' = DeleteRows(labelValues, targets, q)
       /\ prune' = [prune EXCEPT
               ![q].pc = "commit",
               ![q].deletedValues = Cardinality(targets),
               ![q].targets = prune[q].targets \cup {r.id : r \in targets}]
    /\ UNCHANGED <<labelKeys, pendingPrunes, pruneCalls>>
    /\ LabelsUnchangedByPrune

\* the prune transaction commits and returns {deletedKeys, deletedValues}
PruneCommit(q) ==
    /\ prune[q].pc = "commit"
    /\ labelKeys' = CommitTable(labelKeys, q)
    /\ labelValues' = CommitTable(labelValues, q)
    /\ prune' = [prune EXCEPT ![q] = IdlePrune]
    /\ UNCHANGED <<pendingPrunes, pruneCalls>>
    /\ LabelsUnchangedByPrune

NextPrune(workers) ==
    \/ PruneCall
    \/ \E q \in workers :
          \/ PruneSelectKeys(q)
          \/ PruneSelectValues(q)
          \/ PruneDeleteKeys(q)
          \/ PruneDeleteValues(q)
          \/ PruneCommit(q)

\* concurrent syncAgentLabels calls and prunes
NextLabels ==
    \/ \E p \in SyncProcs :
          \/ SyncBegin(p)
          \/ SyncDeleteResume(p)
          \/ SyncKeyInsert(p)
          \/ SyncKeySelect(p)
          \/ SyncValueInsert(p)
          \/ SyncValueSelect(p)
          \/ SyncJunctionInsert(p)
          \/ SyncCommit(p)
    \/ NextPrune(PruneProcs)

\* syncAgentLabels calls made one after the other (a single caller, whose
\* delete therefore never waits) and prunes run one after the other, a sync
\* and a prune interleaving statement by statement
FirstSyncProc == CHOOSE p \in SyncProcs : \A p2 \in SyncProcs : p <= p2
FirstPruneProc == CHOOSE q \in PruneProcs : \A q2 \in PruneProcs : q <= q2

NextOneSyncer ==
    \/ SyncBegin(FirstSyncProc)
    \/ SyncKeyInsert(FirstSyncProc)
    \/ SyncKeySelect(FirstSyncProc)
    \/ SyncValueInsert(FirstSyncProc)
    \/ SyncValueSelect(FirstSyncProc)
    \/ SyncJunctionInsert(FirstSyncProc)
    \/ SyncCommit(FirstSyncProc)
    \/ NextPrune({FirstPruneProc})

(***************************************************************************)
(* Secrets at rest: utils/crypto, SecretModel, rotateSecretEncryptionKey   *)
(***************************************************************************)
MaxSecretRows == 2   \* rows ever inserted into the secret table
MaxSecretOps == 2    \* SecretModel.update / delete / find calls
MaxRotations == 2    \* rotateSecretEncryptionKey calls

AuthSecrets == {"sA", "sB"}       \* values of ARCHESTRA_AUTH_SECRET / OLD_ARCHESTRA_AUTH_SECRET
AuthSecret == "sA"                \* secret the running application is configured with
SecretContents == {"c1", "c2"}    \* JSON payloads callers store
SecretNames == {"n1", "n2"}
IVs == {"iv1", "iv2"}            \* initialization vectors the random source yields

\* deriveKeyFromSecret: deterministic, distinct secrets give distinct keys
deriveKeyFromSecret(secret) == [derivedFrom |-> secret]

NoKey == [derivedFrom |-> "none"]

\* a plain JSON object with the given content
PlainObject(content) == [encrypted |-> FALSE, wellFormed |-> TRUE, key |-> NoKey, iv |-> "none", content |-> content]

\* { __encrypted: "v1:abc" }: has the wrapper shape, not the four parts
MalformedWrapper == [encrypted |-> TRUE, wellFormed |-> FALSE, key |-> NoKey, iv |-> "none", content |-> "none"]

\* { __encrypted: "v1:<iv>:<authTag>:<ciphertext>" } of the object under the key
encryptSecretValueWithKey(plaintext, key, iv) ==
    [encrypted |-> TRUE, wellFormed |-> TRUE, key |-> key, iv |-> iv, content |-> plaintext.content]

\* true only for { __encrypted: "v1:..." }
isEncryptedSecret(value) == value.encrypted

\* throws on a malformed wrapper and when the authentication tag does not
\* verify under the key; otherwise the object that was encrypted
decryptSecretValueWithKey(value, key) ==
    IF value.wellFormed /\ value.key = key
    THEN [ok |-> TRUE, value |-> PlainObject(value.content)]
    ELSE [ok |-> FALSE, value |-> PlainObject("none")]

\* the ambient-key forms used by SecretModel
encryptSecretValue(plaintext, iv) ==
    encryptSecretValueWithKey(plaintext, deriveKeyFromSecret(AuthSecret), iv)

\* values a row written outside SecretModel can hold: plaintext written before
\* encryption at rest, a wrapper under either secret, a malformed wrapper
RawSecrets ==
    {PlainObject("c1")}
    \cup {encryptSecretValueWithKey(PlainObject("c1"), deriveKeyFromSecret("sA"), "iv1"),
          encryptSecretValueWithKey(PlainObject("c2"), deriveKeyFromSecret("sB"), "iv1")}
    \cup {MalformedWrapper}

\* decryptSecretValue: decryptSecretValueWithKey under the configured secret
decryptSecretValue(value) ==
    decryptSecretValueWithKey(value, deriveKeyFromSecret(AuthSecret))

decryptSecretRowNever(row) == [ok |-> TRUE, row |-> row]

\* decryptSecretRow(row) for a row that is not null
decryptSecretRow(row) ==
    IF isEncryptedSecret(row.secret)
    THEN [ok |-> decryptSecretValue(row.secret).ok,
          row |-> [row EXCEPT !.secret = decryptSecretValue(row.secret).value]]
    ELSE [ok |-> TRUE, row |-> row]

NoRead == [op |-> "none", ids |-> {}, threw |-> FALSE, rows |-> {}]

\* what a SecretModel method returns for the rows its statement yielded
\* (no row: null, undefined or []), or the throw of decryptSecretRow
Returned(op, ids, selected) ==
    IF \E r \in selected : ~decryptSecretRow(r).ok
    THEN [op |-> op, ids |-> ids, threw |-> TRUE, rows |-> {}]
    ELSE [op |-> op, ids |-> ids, threw |-> FALSE,
          rows |-> {decryptSecretRow(r).row : r \in selected}]

IdleRotation ==
    [pc |-> "idle", oldSecret |-> "none", newSecret |-> "none", dryRun |-> FALSE,
     rows |-> <<>>, i |-> 1, reEncrypted |-> 0, newlyEncrypted |-> 0,
     writes |-> {}, startTable |-> {}]

InitSecrets ==
    /\ secretsTable = {}
    /\ rot = IdleRotation
    /\ secretNextId = 1
    /\ secretOps = 0
    /\ rotations = 0
    /\ secretTouched = {}
    /\ secretWritten = {}
    /\ secretRead = NoRead

\* the application is stopped while the rotation script runs
AppRunning == rot.pc = "idle"

SecretsUnchangedByApp == UNCHANGED <<rot, rotations>> /\ SecretsFrame

\* a row inserted directly (db.insert(...).values({ name, secret })), before
\* the rotation script is first run
InsertRawSecret ==
    /\ AppRunning
    /\ rotations = 0
    /\ secretNextId <= MaxSecretRows
    /\ \E raw \in RawSecrets :
          secretsTable' = secretsTable \cup
              {[id |-> secretNextId, name |-> "n1", secret |-> raw]}
    /\ secretNextId' = secretNextId + 1
    /\ secretRead' = NoRead
    /\ UNCHANGED <<secretOps, secretTouched, secretWritten>>
    /\ SecretsUnchangedByApp

\* SecretModel.create(input)
SecretCreate ==
    /\ AppRunning
    /\ secretNextId <= MaxSecretRows
    /\ \E content \in SecretContents, iv \in IVs :
          LET secret == [id |-> secretNextId, name |-> "n1",
                         secret |-> encryptSecretValue(PlainObject(content), iv)]
          IN  /\ secretsTable' = secretsTable \cup {secret}
              /\ secretRead' = Returned("create", {secretNextId}, {secret})
    /\ secretNextId' = secretNextId + 1
    /\ secretTouched' = secretTouched \cup {secretNextId}
    /\ secretWritten' = secretWritten \cup {secretNextId}
    /\ UNCHANGED secretOps
    /\ SecretsUnchangedByApp

\* UpdateSecret inputs: name and secret are both optional
UpdateInputs ==
    [hasName : BOOLEAN, name : {"n2"}, hasSecret : BOOLEAN, secret : {PlainObject("c2")}]

UpdateValuesNeverEncrypted(input, iv) == input

\* const values = input.secret ? { ...input, secret: encryptSecretValue(input.secret) } : input
UpdateValues(input, iv) ==
    IF input.hasSecret
    THEN [input EXCEPT !.secret = encryptSecretValue(input.secret, iv)]
    ELSE input

\* update(...).set(values): only the columns present in values are written
SetColumns(row, values) ==
    [id |-> row.id,
     name |-> IF values.hasName THEN values.name ELSE row.name,
     secret |-> IF values.hasSecret THEN values.secret ELSE row.secret]

\* SecretModel.update(id, input)
SecretUpdate ==
    /\ AppRunning
    /\ secretOps < MaxSecretOps
    /\ \E id \in 1..MaxSecretRows, input \in UpdateInputs :
       \E iv \in IF input.hasSecret THEN IVs ELSE {"iv1"} :
          LET values == UpdateValues(input, iv)
              hit == {r \in secretsTable : r.id = id}
          IN  /\ secretsTable' = (secretsTable \ hit) \cup {SetColumns(r, values) : r \in hit}
              /\ secretRead' = Returned("update", {id}, {SetColumns(r, values) : r \in hit})
              /\ secretTouched' = secretTouched \cup {r.id : r \in hit}
              /\ secretWritten' =
                    IF input.hasSecret THEN secretWritten \cup {r.id : r \in hit}
                    ELSE secretWritten
    /\ secretOps' = secretOps + 1
    /\ UNCHANGED secretNextId
    /\ SecretsUnchangedByApp

\* SecretModel.delete(id)
SecretDelete ==
    /\ AppRunning
    /\ secretOps < MaxSecretOps
    /\ \E id \in 1..MaxSecretRows :
          /\ \E r \in secretsTable : r.id = id
          /\ secretsTable' = {r \in secretsTable : r.id # id}
    /\ secretOps' = secretOps + 1
    /\ secretRead' = NoRead
    /\ UNCHANGED <<secretNextId, secretTouched, secretWritten>>
    /\ SecretsUnchangedByApp

ReadUnchanged ==
    /\ secretOps < MaxSecretOps
    /\ secretOps' = secretOps + 1
    /\ UNCHANGED <<secretsTable, secretNextId, secretTouched, secretWritten>>
    /\ SecretsUnchangedByApp

\* SecretModel.findById(id)
SecretFindById ==
    /\ AppRunning
    /\ \E id \in 1..MaxSecretRows :
          secretRead' = Returned("findById", {id}, {r \in secretsTable : r.id = id})
    /\ ReadUnchanged

\* SecretModel.findByName(name): the first row the select yields, if any
SecretFindByName ==
    /\ AppRunning
    /\ \E name \in SecretNames :
          LET hit == {r \in secretsTable : r.name = name}
          IN  IF hit = {}
              THEN secretRead' = Returned("findByName", {}, {})
              ELSE \E first \in hit :
                      secretRead' = Returned("findByName", {first.id}, {first})
    /\ ReadUnchanged

\* SecretModel.findByIds(ids)
SecretFindByIds ==
    /\ AppRunning
    /\ \E ids \in SUBSET (1..MaxSecretRows) :
          secretRead' =
              IF ids = {} THEN Returned("findByIds", {}, {})
              ELSE Returned("findByIds", ids, {r \in secretsTable : r.id \in ids})
    /\ ReadUnchanged

\* the orders in which a select without ORDER BY can return the rows
RowOrders(tbl) ==
    {s \in [1..Cardinality(tbl) -> tbl] : \A i, j \in DOMAIN s : i # j => s[i] # s[j]}

RotationUnchanged ==
    UNCHANGED <<secretNextId, secretOps, secretTouched, secretWritten, secretRead>> /\ SecretsFrame

\* rotateSecretEncryptionKey(opts) up to the derivation of the two keys
RotateStart ==
    /\ rot.pc = "idle"
    /\ rotations < MaxRotations
    /\ \E oldSecret \in AuthSecrets, newSecret \in AuthSecrets, dryRun \in BOOLEAN :
          rot' = [IdleRotation EXCEPT
                     !.pc = IF oldSecret = newSecret THEN "threw" ELSE "select",
                     !.oldSecret = oldSecret, !.newSecret = newSecret,
                     !.dryRun = dryRun, !.startTable = secretsTable]
    /\ rotations' = rotations + 1
    /\ UNCHANGED secretsTable
    /\ RotationUnchanged

DryRunBranchNever(dryRun) == FALSE

\* if (dryRun) { ... return }
DryRunBranch(dryRun) == dryRun

\* const rows = await db.select().from(secretsTable)
RotateSelectRows ==
    /\ rot.pc = "select"
    /\ \E rows \in RowOrders(secretsTable) :
          rot' = [rot EXCEPT !.rows = rows,
                             !.pc = IF DryRunBranch(rot.dryRun) THEN "dry_run" ELSE "transaction"]
    /\ UNCHANGED <<secretsTable, rotations>>
    /\ RotationUnchanged

\* one iteration of the dry-run loop, and the return after the last one
RotateDryRunRow ==
    /\ rot.pc = "dry_run"
    /\ IF rot.i <= Len(rot.rows)
       THEN LET row == rot.rows[rot.i]
            IN  IF isEncryptedSecret(row.secret)
                THEN IF decryptSecretValueWithKey(row.secret, deriveKeyFromSecret(rot.oldSecret)).ok
                     THEN rot' = [rot EXCEPT !.reEncrypted = @ + 1, !.i = @ + 1]
                     ELSE rot' = [rot EXCEPT !.pc = "threw"]
                ELSE rot' = [rot EXCEPT !.newlyEncrypted = @ + 1, !.i = @ + 1]
       ELSE rot' = [rot EXCEPT !.pc = "returned"]
    /\ UNCHANGED <<secretsTable, rotations>>
    /\ RotationUnchanged

\* the committed table with the transaction's updates applied
ApplyWrites(tbl, writes) ==
    {IF \E w \in writes : w.id = r.id
     THEN [r EXCEPT !.secret = (CHOOSE w \in writes : w.id = r.id).secret]
     ELSE r : r \in tbl}

RotationRollbackKeepsWrites(tbl, writes) == ApplyWrites(tbl, writes)

\* db.transaction: a throw inside the callback rolls every update back
RotationRollback(tbl, writes) == tbl

RotateRowSecretUnencrypted(plaintext, newKey, iv) == plaintext

\* const encrypted = encryptSecretValueWithKey(plaintext, newKey)
RotateRowSecret(plaintext, newKey, iv) == encryptSecretValueWithKey(plaintext, newKey, iv)

\* one iteration of the loop inside the transaction
RotateTxRow ==
    /\ rot.pc = "transaction"
    /\ rot.i <= Len(rot.rows)
    /\ LET row == rot.rows[rot.i]
           oldKey == deriveKeyFromSecret(rot.oldSecret)
           newKey == deriveKeyFromSecret(rot.newSecret)
           decrypted == decryptSecretValueWithKey(row.secret, oldKey)
       IN  IF isEncryptedSecret(row.secret) /\ ~decrypted.ok
           THEN /\ rot' = [rot EXCEPT !.pc = "threw", !.writes = {}]
                /\ secretsTable' = RotationRollback(secretsTable, rot.writes)
           ELSE /\ \E iv \in IVs :
                      LET plaintext == IF isEncryptedSecret(row.secret)
                                       THEN decrypted.value ELSE row.secret
                          encrypted == RotateRowSecret(plaintext, newKey, iv)
                      IN  rot' = [rot EXCEPT
                                     !.reEncrypted = IF isEncryptedSecret(row.secret) THEN @ + 1 ELSE @,
                                     !.newlyEncrypted = IF isEncryptedSecret(row.secret) THEN @ ELSE @ + 1,
                                     !.writes = {w \in @ : w.id # row.id}
                                                \cup {[id |-> row.id, secret |-> encrypted]},
                                     !.i = @ + 1]
                /\ UNCHANGED secretsTable
    /\ UNCHANGED rotations
    /\ RotationUnchanged

\* the transaction commits after the last row; the function returns the counts
RotateCommit ==
    /\ rot.pc = "transaction"
    /\ rot.i > Len(rot.rows)
    /\ secretsTable' = ApplyWrites(secretsTable, rot.writes)
    /\ rot' = [rot EXCEPT !.pc = "returned", !.writes = {}]
    /\ UNCHANGED rotations
    /\ RotationUnchanged

\* the script's process ends; the application is started again
RotateExit ==
    /\ rot.pc \in {"returned", "threw"}
    /\ rot' = IdleRotation
    /\ UNCHANGED <<secretsTable, rotations>>
    /\ RotationUnchanged

\* the application's writes to the secret table
NextSecretModel ==
    \/ InsertRawSecret
    \/ SecretCreate
    \/ SecretUpdate
    \/ SecretDelete
    \/ SecretFindById
    \/ SecretFindByName
    \/ SecretFindByIds

\* the rotation script run on a table of existing rows, the application stopped
NextRotation ==
    \/ InsertRawSecret
    \/ RotateStart
    \/ RotateSelectRows
    \/ RotateDryRunRow
    \/ RotateTxRow
    \/ RotateCommit
    \/ RotateExit

(***************************************************************************)
(* SSO providers: SsoProviderModel                                         *)
(***************************************************************************)
MaxSsoRows == 2      \* provider rows ever inserted
MaxSsoCalls == 2     \* SsoProviderModel calls made

SsoProcs == {31, 32}                 \* concurrent callers
OrganizationIds == {"orgA", "orgB"}
SsoIds == 1..MaxSsoRows
StoredConfigs == {"null", "{c1}", "{c2}"}   \* the oidcConfig / samlConfig column: null or JSON text

\* JSON.parse of a stored config
JSONParse(text) ==
    CASE text = "{c1}" -> "c1"
      [] text = "{c2}" -> "c2"
      [] OTHER -> "SyntaxError"

\* provider.oidcConfig ? JSON.parse(provider.oidcConfig) : undefined
ParsedConfig(stored) == IF stored # "null" THEN JSONParse(stored) ELSE "undefined"

\* { ...provider, oidcConfig: ..., samlConfig: ... }
ParsedProvider(r) ==
    [r EXCEPT !.oidcConfig = ParsedConfig(r.oidcConfig),
              !.samlConfig = ParsedConfig(r.samlConfig)]

PublicColumnsAll(r) == r

\* select({ id, providerId })
PublicColumns(r) == [id |-> r.id, providerId |-> r.providerId]

ProviderIdOf(id) == IF id = 1 THEN "Okta" ELSE "Azure"

IdleSso ==
    [pc |-> "idle", op |-> "none", id |-> 0, organizationId |-> "none",
     data |-> "none", rows |-> {}, deleted |-> FALSE,
     foreign |-> FALSE, wroteOrgs |-> {}, tableAtCall |-> {}]

InitSso ==
    /\ ssoProviders = {}
    /\ sso = [p \in SsoProcs |-> IdleSso]
    /\ ssoNextId = 1
    /\ ssoCalls = 0

SsoUnchanged == UNCHANGED <<varsRetry, varsLabels, varsSecrets, varsA2A, varsOrg, varsInteractions, varsAgentTeams, varsClassify, varsAuthCheck, varsWithPermissions, varsMembers, varsTheme, varsInvitations, varsOrgCalls, varsReadme>>

\* a provider row registered for an organization
MakeSsoProvider ==
    /\ ssoNextId <= MaxSsoRows
    /\ \E org \in OrganizationIds, oidc \in {"null", "{c1}"} :
          ssoProviders' = ssoProviders \cup
              {[id |-> ssoNextId, providerId |-> ProviderIdOf(ssoNextId),
                organizationId |-> org, issuer |-> "i1", domain |-> "d1",
                oidcConfig |-> oidc, samlConfig |-> "null"]}
    /\ ssoNextId' = ssoNextId + 1
    /\ UNCHANGED <<sso, ssoCalls>>
    /\ SsoUnchanged

\* lowest-numbered caller that is not inside a call
SsoFree(p) ==
    /\ sso[p].pc \in {"idle", "returned"}
    /\ \A p2 \in SsoProcs : p2 < p => sso[p2].pc \notin {"idle", "returned"}
    /\ ssoCalls < MaxSsoCalls

WhereIdOnly(r, id, organizationId) == r.id = id

\* and(eq(ssoProvidersTable.id, id), eq(ssoProvidersTable.organizationId, organizationId))
WhereIdAndOrganization(r, id, organizationId) ==
    r.id = id /\ r.organizationId = organizationId

SelectProvider(id, organizationId) ==
    {r \in ssoProviders : WhereIdAndOrganization(r, id, organizationId)}

\* the called id names a row of another organization
IsForeign(id, organizationId) ==
    \E r \in ssoProviders : r.id = id /\ r.organizationId # organizationId

\* SsoProviderModel.findAllPublic()
SsoFindAllPublic(p) ==
    /\ SsoFree(p)
    /\ sso' = [sso EXCEPT ![p] = [IdleSso EXCEPT
                  !.pc = "returned", !.op = "findAllPublic",
                  !.tableAtCall = ssoProviders,
                  !.rows = {PublicColumns(r) : r \in ssoProviders}]]
    /\ ssoCalls' = ssoCalls + 1
    /\ UNCHANGED <<ssoProviders, ssoNextId>>
    /\ SsoUnchanged

\* SsoProviderModel.findAll(organizationId)
SsoFindAll(p) ==
    /\ SsoFree(p)
    /\ \E org \in OrganizationIds :
          sso' = [sso EXCEPT ![p] = [IdleSso EXCEPT
                     !.pc = "returned", !.op = "findAll", !.organizationId = org,
                     !.rows = {ParsedProvider(r) :
                                  r \in {x \in ssoProviders : x.organizationId = org}}]]
    /\ ssoCalls' = ssoCalls + 1
    /\ UNCHANGED <<ssoProviders, ssoNextId>>
    /\ SsoUnchanged

\* SsoProviderModel.findById(id, organizationId)
SsoFindById(p) ==
    /\ SsoFree(p)
    /\ \E id \in SsoIds, org \in OrganizationIds :
          sso' = [sso EXCEPT ![p] = [IdleSso EXCEPT
                     !.pc = "returned", !.op = "findById",
                     !.id = id, !.organizationId = org,
                     !.foreign = IsForeign(id, org),
                     !.rows = {ParsedProvider(r) : r \in SelectProvider(id, org)}]]
    /\ ssoCalls' = ssoCalls + 1
    /\ UNCHANGED <<ssoProviders, ssoNextId>>
    /\ SsoUnchanged

\* Partial<UpdateSsoProvider>
SsoUpdateData == {"issuer", "oidcConfig"}

\* set(data)
SetProviderColumns(r, data) ==
    IF data = "issuer" THEN [r EXCEPT !.issuer = "i2"]
    ELSE [r EXCEPT !.oidcConfig = "{c2}"]

\* update / delete up to the existence check: findById, return when null
SsoCheckExisting(p) ==
    /\ SsoFree(p)
    /\ \E op \in {"update", "delete"}, id \in SsoIds, org \in OrganizationIds,
          data \in SsoUpdateData :
          /\ op = "delete" => data = "issuer"
          /\ sso' = [sso EXCEPT ![p] = [IdleSso EXCEPT
                        !.pc = IF SelectProvider(id, org) = {} THEN "returned" ELSE "write",
                        !.op = op, !.id = id, !.organizationId = org,
                        !.data = IF op = "update" THEN data ELSE "none",
                        !.foreign = IsForeign(id, org)]]
    /\ ssoCalls' = ssoCalls + 1
    /\ UNCHANGED <<ssoProviders, ssoNextId>>
    /\ SsoUnchanged

\* update: db.update(...).set(data).where(...).returning() and the return
SsoUpdateWrite(p) ==
    /\ sso[p].pc = "write"
    /\ sso[p].op = "update"
    /\ LET hit == SelectProvider(sso[p].id, sso[p].organizationId)
           updated == {SetProviderColumns(r, sso[p].data) : r \in hit}
       IN  /\ ssoProviders' = (ssoProviders \ hit) \cup updated
           /\ sso' = [sso EXCEPT ![p].pc = "returned",
                                 ![p].rows = {ParsedProvider(r) : r \in updated},
                                 ![p].wroteOrgs = {r.organizationId : r \in hit}]
    /\ UNCHANGED <<ssoNextId, ssoCalls>>
    /\ SsoUnchanged

\* delete: db.delete(...).where(...).returning({ id }) and the return
SsoDeleteWrite(p) ==
    /\ sso[p].pc = "write"
    /\ sso[p].op = "delete"
    /\ LET hit == SelectProvider(sso[p].id, sso[p].organizationId)
       IN  /\ ssoProviders' = ssoProviders \ hit
           /\ sso' = [sso EXCEPT ![p].pc = "returned",
                                 ![p].deleted = hit # {},
                                 ![p].wroteOrgs = {r.organizationId : r \in hit}]
    /\ UNCHANGED <<ssoNextId, ssoCalls>>
    /\ SsoUnchanged

NextSso ==
    \/ MakeSsoProvider
    \/ \E p \in SsoProcs :
          \/ SsoFindAllPublic(p)
          \/ SsoFindAll(p)
          \/ SsoFindById(p)
          \/ SsoCheckExisting(p)
          \/ SsoUpdateWrite(p)
          \/ SsoDeleteWrite(p)

(***************************************************************************)
(* A2A routes: GET AgentCard, POST JSON-RPC execution                      *)
(***************************************************************************)
\* the data the handlers read
PromptAgent == [p1 |-> "a1", p2 |-> "a2", p3 |-> "a9"]   \* prompt.agentId of the stored prompts
StoredAgents == {"a1", "a2"}
StoredUsers == {"u1"}
TokenTable ==                                            \* agent a token is scoped to, and its user
    [t1 |-> [agentId |-> "a1", userId |-> "u1", organizationId |-> "orgA"],
     t2 |-> [agentId |-> "a2", userId |-> "none", organizationId |-> "orgB"],
     t3 |-> [agentId |-> "a1", userId |-> "u9", organizationId |-> "orgA"]]

\* what a request can carry
A2APromptIds == {"p1", "p2", "p3", "p4"}
A2AHeaders ==
    {[scheme |-> "none", token |-> "none"], [scheme |-> "Basic", token |-> "t1"],
     [scheme |-> "Bearer", token |-> "t1"], [scheme |-> "Bearer", token |-> "t2"],
     [scheme |-> "Bearer", token |-> "t3"], [scheme |-> "Bearer", token |-> "bogus"]}
A2AParts == {<<>>, <<"">>, <<"hello">>, <<"hello", "">>}
A2ARequestIds == {"req-1", "req-2"}

NoAuth == [agentId |-> "none", userId |-> "none", organizationId |-> "none"]
NoResponse == [status |-> 0, kind |-> "none", code |-> 0, id |-> "none"]

\* extractBearerToken(request): the token of a Bearer authorization header, else null
extractBearerToken(header) == IF header.scheme = "Bearer" THEN header.token ELSE "null"

\* validateMCPGatewayToken(agentId, token): the token's identity when the token
\* exists and is scoped to that agent, else null
validateMCPGatewayToken(agentId, token) ==
    IF token \in DOMAIN TokenTable /\ TokenTable[token].agentId = agentId
    THEN TokenTable[token] ELSE NoAuth

\* parts?.filter(kind = text).map(text).join("\n") || "" is the empty string
UserMessageEmpty(parts) == Len(parts) = 0 \/ (Len(parts) = 1 /\ parts[1] = "")

IdleA2A ==
    [pc |-> "idle", route |-> "none", promptId |-> "none",
     header |-> [scheme |-> "none", token |-> "none"], parts |-> <<>>, id |-> "none",
     agentId |-> "none", tokenAuth |-> NoAuth, userId |-> "none",
     toolsFetched |-> FALSE, llmInvoked |-> FALSE, response |-> NoResponse]

InitA2A == a2a = IdleA2A

A2AUnchanged == UNCHANGED <<varsRetry, varsLabels, varsSecrets, varsSso, varsOrg, varsInteractions, varsAgentTeams, varsClassify, varsAuthCheck, varsWithPermissions, varsMembers, varsTheme, varsInvitations, varsOrgCalls, varsReadme>>

\* reply.send of a JSON-RPC error under the route's 200 response
RpcError(code) == [status |-> 200, kind |-> "error", code |-> code, id |-> a2a.id]

\* an exception leaving the handler: the server's error response
HttpError(status) == [status |-> status, kind |-> "http_error", code |-> 0, id |-> "none"]

\* how the route reports a failure found before execution
Fail(httpStatus, rpcCode) ==
    a2a' = [a2a EXCEPT !.pc = "responded",
                       !.response = IF a2a.route = "GET" THEN HttpError(httpStatus)
                                    ELSE RpcError(rpcCode)]

\* an awaited call rejects outside any try block
Throws == a2a' = [a2a EXCEPT !.pc = "responded", !.response = HttpError(500)]

\* a request that passed the route's schema validation reaches the handler
A2ARequest ==
    /\ a2a.pc = "idle"
    /\ \E route \in {"GET", "POST"}, promptId \in A2APromptIds, header \in A2AHeaders,
          parts \in A2AParts, id \in A2ARequestIds :
          /\ route = "GET" => (parts = <<>> /\ id = "req-1")
          /\ a2a' = [IdleA2A EXCEPT !.pc = "find_prompt", !.route = route,
                                    !.promptId = promptId, !.header = header,
                                    !.parts = parts, !.id = id]
    /\ A2AUnchanged

\* const prompt = await PromptModel.findById(promptId)
A2AFindPrompt ==
    /\ a2a.pc = "find_prompt"
    /\ \/ Throws
       \/ IF a2a.promptId \in DOMAIN PromptAgent
          THEN a2a' = [a2a EXCEPT !.pc = "find_agent"]
          ELSE Fail(404, -32602)
    /\ A2AUnchanged

\* if (!token) fails the request
TokenPresent(token) == token # "null"

TokenAuthorizedAlways(tokenAuth) == TRUE

\* if (!tokenAuth) fails the request
TokenAuthorized(tokenAuth) == tokenAuth # NoAuth

\* const agent = await AgentModel.findById(prompt.agentId), then the token
\* extraction up to the await of validateMCPGatewayToken
A2AFindAgent ==
    /\ a2a.pc = "find_agent"
    /\ \/ Throws
       \/ LET agentId == PromptAgent[a2a.promptId]
          IN  IF agentId \notin StoredAgents THEN Fail(404, -32602)
              ELSE IF ~TokenPresent(extractBearerToken(a2a.header))
                   THEN Fail(401, -32600)
                   ELSE a2a' = [a2a EXCEPT !.pc = "validate", !.agentId = agentId]
    /\ A2AUnchanged

\* const tokenAuth = await validateMCPGatewayToken(agent.id, token); the GET
\* route then sends the AgentCard
A2AValidateToken ==
    /\ a2a.pc = "validate"
    /\ \/ Throws
       \/ LET token == extractBearerToken(a2a.header)
              tokenAuth == validateMCPGatewayToken(a2a.agentId, token)
          IN  IF ~TokenAuthorized(tokenAuth) THEN Fail(401, -32600)
              ELSE IF a2a.route = "GET"
                   THEN a2a' = [a2a EXCEPT !.pc = "responded", !.tokenAuth = tokenAuth,
                                   !.response = [status |-> 200, kind |-> "card",
                                                 code |-> 0, id |-> "none"]]
                   ELSE a2a' = [a2a EXCEPT !.pc = "get_user", !.tokenAuth = tokenAuth]
    /\ A2AUnchanged

\* the user lookup for a user token, then the extraction of the message text
A2AGetUser ==
    /\ a2a.pc = "get_user"
    /\ \/ a2a.tokenAuth.userId # "none" /\ Throws
       \/ IF a2a.tokenAuth.userId # "none" /\ a2a.tokenAuth.userId \notin StoredUsers
          THEN a2a' = [a2a EXCEPT !.pc = "responded", !.response = RpcError(-32600)]
          ELSE IF UserMessageEmpty(a2a.parts)
               THEN a2a' = [a2a EXCEPT !.pc = "responded", !.response = RpcError(-32602)]
               ELSE a2a' = [a2a EXCEPT
                               !.pc = "fetch_tools",
                               !.userId = IF a2a.tokenAuth.userId # "none"
                                          THEN a2a.tokenAuth.userId ELSE "system"]
    /\ A2AUnchanged

\* catch (error) { reply.send({ error: { code: -32603 } }) }
CatchExecution == a2a' = [a2a EXCEPT !.pc = "responded", !.response = RpcError(-32603)]

\* const mcpTools = await getChatMcpTools(...)
A2AFetchTools ==
    /\ a2a.pc = "fetch_tools"
    /\ \/ a2a' = [a2a EXCEPT !.pc = "responded", !.toolsFetched = TRUE,
                             !.response = RpcError(-32603)]
       \/ a2a' = [a2a EXCEPT !.pc = "create_model", !.toolsFetched = TRUE]
    /\ A2AUnchanged

\* const { model, provider } = await createLLMModelForAgent(...)
A2ACreateModel ==
    /\ a2a.pc = "create_model"
    /\ \/ CatchExecution
       \/ a2a' = [a2a EXCEPT !.pc = "stream"]
    /\ A2AUnchanged

\* streamText(...), await stream.text / usage / finishReason, the result
A2AStream ==
    /\ a2a.pc = "stream"
    /\ \/ a2a' = [a2a EXCEPT !.pc = "responded", !.llmInvoked = TRUE,
                             !.response = RpcError(-32603)]
       \/ a2a' = [a2a EXCEPT !.pc = "responded", !.llmInvoked = TRUE,
                             !.response = [status |-> 200, kind |-> "result",
                                           code |-> 0, id |-> a2a.id]]
    /\ A2AUnchanged

\* the response is on the wire; the next request arrives
A2ADone ==
    /\ a2a.pc = "responded"
    /\ a2a' = IdleA2A
    /\ A2AUnchanged

NextA2A ==
    \/ A2ARequest
    \/ A2AFindPrompt
    \/ A2AFindAgent
    \/ A2AValidateToken
    \/ A2AGetUser
    \/ A2AFetchTools
    \/ A2ACreateModel
    \/ A2AStream
    \/ A2ADone

(***************************************************************************)
(* Organization routes: appearance, logo, PATCH /api/organization          *)
(***************************************************************************)
Themes == {"cosmic-night", "ocean-breeze"}
Fonts == {"lato", "inter"}
PngPrefix == "data:image/png;base64,"
PrefixLength == [p \in {PngPrefix, "data:image/jpeg;base64,", ""} |->
                    IF p = PngPrefix THEN 22 ELSE IF p = "" THEN 0 ELSE 23]

\* largest length that is not greater than 2.66 * 1024 * 1024 = 2789212.16
MaxLogoLength == 2789212

\* a logo string is the prefix it starts with and its length; null is no string
NullLogo == [isString |-> FALSE, prefix |-> "", length |-> 0]
LogoString(prefix, length) == [isString |-> TRUE, prefix |-> prefix, length |-> length]
LogoStrings ==
    {LogoString("", 0),
     LogoString("data:image/jpeg;base64,", 100),
     LogoString(PngPrefix, 100),
     LogoString(PngPrefix, MaxLogoLength),
     LogoString(PngPrefix, MaxLogoLength + 1)}

\* logo.startsWith("data:image/png;base64,")
startsWithPng(logo) == logo.prefix = PngPrefix /\ logo.length >= PrefixLength[PngPrefix]

\* logo.length > maxSize
exceedsMaxSize(logo) == logo.length > MaxLogoLength

\* JavaScript truthiness of a string | null value
Truthy(logo) == logo.isString /\ logo.length > 0

\* getUserFromRequest(request): null, a member, an admin
NoUser == [present |-> FALSE, isAdmin |-> FALSE]
OrgUsers == {NoUser, [present |-> TRUE, isAdmin |-> FALSE], [present |-> TRUE, isAdmin |-> TRUE]}

\* the organization of the caller's session
RequestOrganizationIds == {"default-org", "org-gone"}

NoOrgReply ==
    [route |-> "none", user |-> NoUser, hasLogo |-> FALSE, logo |-> NullLogo,
     status |-> 0, type |-> "none", before |-> {}]

InitOrg ==
    /\ organizationsTable = {}
    /\ orgReply = NoOrgReply

OrgUnchanged == UNCHANGED <<varsRetry, varsLabels, varsSecrets, varsSso, varsA2A, varsInteractions, varsAgentTeams, varsClassify, varsAuthCheck, varsWithPermissions, varsMembers, varsTheme, varsInvitations, varsOrgCalls, varsReadme>>

DefaultOrganization ==
    [id |-> "default-org", theme |-> "cosmic-night", customFont |-> "lato",
     logo |-> NullLogo, logoType |-> "default"]

\* OrganizationModel.getOrCreateDefaultOrganization(): the table after the call
getOrCreateDefaultOrganization(tbl) == IF tbl = {} THEN {DefaultOrganization} ELSE tbl

\* the columns a partial update can carry
OrgColumns == {"theme", "customFont", "logo", "logoType"}

\* update(organizationsTable).set(data).where(eq(id, id)): only the keys
\* present in data are written
SetOrganization(tbl, id, keys, data) ==
    {IF r.id = id
     THEN [id |-> r.id,
           theme |-> IF "theme" \in keys THEN data.theme ELSE r.theme,
           customFont |-> IF "customFont" \in keys THEN data.customFont ELSE r.customFont,
           logo |-> IF "logo" \in keys THEN data.logo ELSE r.logo,
           logoType |-> IF "logoType" \in keys THEN data.logoType ELSE r.logoType]
     ELSE r : r \in tbl}

OrgData(theme, customFont, logo, logoType) ==
    [theme |-> theme, customFont |-> customFont, logo |-> logo, logoType |-> logoType]

Reply(route, user, hasLogo, logo, status, type) ==
    [route |-> route, user |-> user, hasLogo |-> hasLogo, logo |-> logo,
     status |-> status, type |-> type, before |-> organizationsTable]

\* if (!user) 401; if (!user.isAdmin) 403; 0 when the caller passes
AdminGate(user) == IF ~user.present THEN 401 ELSE IF ~user.isAdmin THEN 403 ELSE 0

GateType(status) == IF status = 401 THEN "unauthorized" ELSE "forbidden"

\* PUT /api/organization/appearance
PutAppearance ==
    \E user \in OrgUsers, theme \in Themes, customFont \in Fonts :
        LET gate == AdminGate(user)
            found == getOrCreateDefaultOrganization(organizationsTable)
            id == (CHOOSE r \in found : TRUE).id
        IN  /\ IF gate # 0
               THEN /\ orgReply' = Reply("PUT appearance", user, FALSE, NullLogo, gate, GateType(gate))
                    /\ UNCHANGED organizationsTable
               ELSE /\ organizationsTable' =
                          SetOrganization(found, id, {"theme", "customFont"},
                                          OrgData(theme, customFont, NullLogo, "default"))
                    /\ orgReply' = Reply("PUT appearance", user, FALSE, NullLogo, 200, "ok")
            /\ OrgUnchanged

\* POST /api/organization/logo
PostLogo ==
    \E user \in OrgUsers, logo \in LogoStrings :
        LET gate == AdminGate(user)
            found == getOrCreateDefaultOrganization(organizationsTable)
            id == (CHOOSE r \in found : TRUE).id
        IN  /\ IF gate # 0
               THEN /\ orgReply' = Reply("POST logo", user, TRUE, logo, gate, GateType(gate))
                    /\ UNCHANGED organizationsTable
               ELSE IF ~startsWithPng(logo) \/ exceedsMaxSize(logo)
               THEN /\ orgReply' = Reply("POST logo", user, TRUE, logo, 400, "validation_error")
                    /\ UNCHANGED organizationsTable
               ELSE /\ organizationsTable' =
                          SetOrganization(found, id, {"logo", "logoType"},
                                          OrgData("cosmic-night", "lato", logo, "custom"))
                    /\ orgReply' = Reply("POST logo", user, TRUE, logo, 200, "ok")
            /\ OrgUnchanged

\* DELETE /api/organization/logo
DeleteLogo ==
    \E user \in OrgUsers :
        LET gate == AdminGate(user)
            found == getOrCreateDefaultOrganization(organizationsTable)
            id == (CHOOSE r \in found : TRUE).id
        IN  /\ IF gate # 0
               THEN /\ orgReply' = Reply("DELETE logo", user, FALSE, NullLogo, gate, GateType(gate))
                    /\ UNCHANGED organizationsTable
               ELSE /\ organizationsTable' =
                          SetOrganization(found, id, {"logo", "logoType"},
                                          OrgData("cosmic-night", "lato", NullLogo, "default"))
                    /\ orgReply' = Reply("DELETE logo", user, FALSE, NullLogo, 200, "ok")
            /\ OrgUnchanged

\* GET /api/organization/appearance: creates the default organization lazily
GetAppearance ==
    \E user \in OrgUsers :
        /\ IF ~user.present
           THEN /\ orgReply' = Reply("GET appearance", user, FALSE, NullLogo, 401, "unauthorized")
                /\ UNCHANGED organizationsTable
           ELSE /\ organizationsTable' = getOrCreateDefaultOrganization(organizationsTable)
                /\ orgReply' = Reply("GET appearance", user, FALSE, NullLogo, 200, "ok")
        /\ OrgUnchanged

\* bodies of PATCH /api/organization: UpdateOrganizationSchema.partial()
PatchBodies ==
    {[keys |-> k, data |-> OrgData(t, f, l, "default")] :
        k \in SUBSET {"theme", "customFont", "logo"}, t \in {"ocean-breeze"},
        f \in {"inter"}, l \in LogoStrings \cup {NullLogo}}

\* OrganizationModel.patch throws when a truthy logo fails the checks
PatchThrows(body) ==
    /\ "logo" \in body.keys
    /\ Truthy(body.data.logo)
    /\ ~startsWithPng(body.data.logo) \/ exceedsMaxSize(body.data.logo)

\* PATCH /api/organization: the caller has a session; the handler reads no
\* user and calls OrganizationModel.patch(organizationId, body)
PatchOrganization ==
    \E user \in OrgUsers \ {NoUser}, organizationId \in RequestOrganizationIds,
       body \in PatchBodies :
        LET hasLogo == "logo" \in body.keys
            hit == {r \in organizationsTable : r.id = organizationId}
        IN  /\ IF PatchThrows(body)
               THEN /\ orgReply' = Reply("PATCH", user, hasLogo, body.data.logo, 500, "api_error")
                    /\ UNCHANGED organizationsTable
               ELSE /\ organizationsTable' =
                          SetOrganization(organizationsTable, organizationId, body.keys, body.data)
                    /\ orgReply' = IF hit = {}
                                   THEN Reply("PATCH", user, hasLogo, body.data.logo, 404, "not_found")
                                   ELSE Reply("PATCH", user, hasLogo, body.data.logo, 200, "ok")
            /\ OrgUnchanged

NextOrg ==
    \/ GetAppearance
    \/ PutAppearance
    \/ PostLogo
    \/ DeleteLogo
    \/ PatchOrganization

(***************************************************************************)
(* Interactions: InteractionModel                                          *)
(***************************************************************************)
MaxInteractions == 2   \* rows ever inserted into the interactions table

ChatIds == {"chat1", "chat2"}

\* content of an interaction: its role and, for a tool message, the
\* tool_call_id string (which may be empty)
NoToolCallId == [present |-> FALSE, text |-> ""]
ToolCallId(text) == [present |-> TRUE, text |-> text]
InteractionContents ==
    {[role |-> "assistant", tool_call_id |-> NoToolCallId]}
    \cup {[role |-> "tool", tool_call_id |-> ToolCallId(t)] : t \in {"", "call_1", "call_2"}}

NoInteractionRead == [op |-> "none", chatId |-> "none", trusted |-> FALSE, ids |-> {}]

InitInteractions ==
    /\ interactionsTable = <<>>
    /\ interactionRead = NoInteractionRead

InteractionsUnchanged == UNCHANGED <<varsRetry, varsLabels, varsSecrets, varsSso, varsA2A, varsOrg, varsAgentTeams, varsClassify, varsAuthCheck, varsWithPermissions, varsMembers, varsTheme, varsInvitations, varsOrgCalls, varsReadme>>

\* InteractionModel.create(data); createdAt grows with the position in the table
InteractionCreate ==
    /\ Len(interactionsTable) < MaxInteractions
    /\ \E chatId \in ChatIds, content \in InteractionContents,
          trusted \in BOOLEAN, blocked \in BOOLEAN :
          interactionsTable' = Append(interactionsTable,
              [chatId |-> chatId, content |-> content, trusted |-> trusted, blocked |-> blocked])
    /\ interactionRead' = NoInteractionRead
    /\ InteractionsUnchanged

\* InteractionModel.findByChatId(chatId): the chat's rows by createdAt ascending
findByChatId(chatId) ==
    LET ofChat(row) == row.chatId = chatId
    IN  SelectSeq(interactionsTable, ofChat)

UntrustedWhereAny(row, chatId) == ~row.trusted

\* where(and(eq(chatId, chatId), eq(trusted, false)))
UntrustedWhere(row, chatId) == row.chatId = chatId /\ ~row.trusted

\* InteractionModel.checkIfChatIsTrusted(chatId)
checkIfChatIsTrusted(chatId) ==
    LET matches(row) == UntrustedWhere(row, chatId)
        untrustedInteractions == SelectSeq(interactionsTable, matches)
    IN  Len(untrustedInteractions) = 0

CheckIfChatIsTrusted ==
    /\ \E chatId \in ChatIds :
          interactionRead' = [op |-> "checkIfChatIsTrusted", chatId |-> chatId,
                              trusted |-> checkIfChatIsTrusted(chatId), ids |-> {}]
    /\ UNCHANGED interactionsTable
    /\ InteractionsUnchanged

\* JavaScript truthiness of interaction.content.tool_call_id
ToolCallIdTruthy(toolCallId) == toolCallId.present /\ toolCallId.text # ""

IsToolBlockedOrNot(interaction) == interaction.content.role = "tool"

\* interaction.blocked && interaction.content.role === "tool"
IsBlockedTool(interaction) == interaction.blocked /\ interaction.content.role = "tool"

\* the loop of getBlockedToolCallIds over interactions[i..], adding to the Set
RECURSIVE CollectBlocked(_, _, _)
CollectBlocked(interactions, i, blockedToolCallIds) ==
    IF i > Len(interactions) THEN blockedToolCallIds
    ELSE LET interaction == interactions[i]
             toolCallId == interaction.content.tool_call_id
         IN  IF IsBlockedTool(interaction) /\ ToolCallIdTruthy(toolCallId)
             THEN CollectBlocked(interactions, i + 1, blockedToolCallIds \cup {toolCallId.text})
             ELSE CollectBlocked(interactions, i + 1, blockedToolCallIds)

\* InteractionModel.getBlockedToolCallIds(chatId)
getBlockedToolCallIds(chatId) == CollectBlocked(findByChatId(chatId), 1, {})

GetBlockedToolCallIds ==
    /\ \E chatId \in ChatIds :
          interactionRead' = [op |-> "getBlockedToolCallIds", chatId |-> chatId,
                              trusted |-> FALSE, ids |-> getBlockedToolCallIds(chatId)]
    /\ UNCHANGED interactionsTable
    /\ InteractionsUnchanged

NextInteractions ==
    \/ InteractionCreate
    \/ CheckIfChatIsTrusted
    \/ GetBlockedToolCallIds

(***************************************************************************)
(* Agent access through teams: AgentTeamModel, TeamModel members           *)
(***************************************************************************)
TeamAgentIds == {"a1", "a2"}
TeamIds == {"t1", "t2"}
TeamUserIds == {"u1", "u2"}

NoAccessRead ==
    [op |-> "none", userId |-> "none", agentId |-> "none", isAgentAdmin |-> FALSE,
     hasAccess |-> FALSE, accessibleIds |-> {}]

InitAgentTeams ==
    /\ agentsTable = {}
    /\ teamMembersTable = {}
    /\ agentTeamsTable = {}
    /\ accessRead = NoAccessRead

AgentTeamsUnchanged == UNCHANGED <<varsRetry, varsLabels, varsSecrets, varsSso, varsA2A, varsOrg, varsInteractions, varsClassify, varsAuthCheck, varsWithPermissions, varsMembers, varsTheme, varsInvitations, varsOrgCalls, varsReadme>>

\* AgentModel.create: a new row of the agents table
AgentCreate ==
    /\ \E agentId \in TeamAgentIds \ agentsTable : agentsTable' = agentsTable \cup {agentId}
    /\ accessRead' = NoAccessRead
    /\ UNCHANGED <<teamMembersTable, agentTeamsTable>>
    /\ AgentTeamsUnchanged

\* TeamModel.addMember(teamId, userId)
TeamAddMember ==
    /\ \E teamId \in TeamIds, userId \in TeamUserIds :
          teamMembersTable' = teamMembersTable \cup {[teamId |-> teamId, userId |-> userId]}
    /\ accessRead' = NoAccessRead
    /\ UNCHANGED <<agentsTable, agentTeamsTable>>
    /\ AgentTeamsUnchanged

\* TeamModel.removeMember(teamId, userId)
TeamRemoveMember ==
    /\ \E teamId \in TeamIds, userId \in TeamUserIds :
          teamMembersTable' = teamMembersTable \ {[teamId |-> teamId, userId |-> userId]}
    /\ accessRead' = NoAccessRead
    /\ UNCHANGED <<agentsTable, agentTeamsTable>>
    /\ AgentTeamsUnchanged

\* AgentTeamModel.syncAgentTeams(agentId, teamIds): delete all, insert all,
\* in one transaction
SyncAgentTeams ==
    /\ \E agentId \in agentsTable, teamIds \in SUBSET TeamIds :
          agentTeamsTable' = {at \in agentTeamsTable : at.agentId # agentId}
                             \cup {[agentId |-> agentId, teamId |-> t] : t \in teamIds}
    /\ accessRead' = NoAccessRead
    /\ UNCHANGED <<agentsTable, teamMembersTable>>
    /\ AgentTeamsUnchanged

\* AgentTeamModel.assignTeamsToAgent(agentId, teamIds): insert, on conflict
\* do nothing
AssignTeamsToAgent ==
    /\ \E agentId \in agentsTable, teamIds \in SUBSET TeamIds :
          agentTeamsTable' = IF teamIds = {} THEN agentTeamsTable
                             ELSE agentTeamsTable
                                  \cup {[agentId |-> agentId, teamId |-> t] : t \in teamIds}
    /\ accessRead' = NoAccessRead
    /\ UNCHANGED <<agentsTable, teamMembersTable>>
    /\ AgentTeamsUnchanged

\* AgentTeamModel.removeTeamFromAgent(agentId, teamId)
RemoveTeamFromAgent ==
    /\ \E agentId \in TeamAgentIds, teamId \in TeamIds :
          agentTeamsTable' = agentTeamsTable \ {[agentId |-> agentId, teamId |-> teamId]}
    /\ accessRead' = NoAccessRead
    /\ UNCHANGED <<agentsTable, teamMembersTable>>
    /\ AgentTeamsUnchanged

\* select teamId from team_member where userId = userId
UserTeamIds(userId) == {tm.teamId : tm \in {m \in teamMembersTable : m.userId = userId}}

\* AgentTeamModel.getUserAccessibleAgentIds(userId, isAgentAdmin): the
\* elements of the returned array
getUserAccessibleAgentIds(userId, isAgentAdmin) ==
    IF isAgentAdmin THEN agentsTable
    ELSE LET teamIds == UserTeamIds(userId)
         IN  IF Cardinality(teamIds) = 0 THEN {}
             ELSE {at.agentId : at \in {r \in agentTeamsTable : r.teamId \in teamIds}}

AgentTeamWhereAnyAgent(row, agentId, teamIds) == row.teamId \in teamIds

\* where(and(eq(agentId, agentId), inArray(teamId, teamIds)))
AgentTeamWhere(row, agentId, teamIds) == row.agentId = agentId /\ row.teamId \in teamIds

\* AgentTeamModel.userHasAgentAccess(userId, agentId, isAgentAdmin)
userHasAgentAccess(userId, agentId, isAgentAdmin) ==
    IF isAgentAdmin THEN TRUE
    ELSE LET teamIds == UserTeamIds(userId)
         IN  IF Cardinality(teamIds) = 0 THEN FALSE
             ELSE LET agentTeam == {r \in agentTeamsTable : AgentTeamWhere(r, agentId, teamIds)}
                  IN  Cardinality(agentTeam) > 0

\* both queries asked for the same user, agent and flag on the same tables
AccessQuery ==
    /\ \E userId \in TeamUserIds, agentId \in TeamAgentIds, isAgentAdmin \in BOOLEAN :
          accessRead' = [op |-> "access", userId |-> userId, agentId |-> agentId,
                         isAgentAdmin |-> isAgentAdmin,
                         hasAccess |-> userHasAgentAccess(userId, agentId, isAgentAdmin),
                         accessibleIds |-> getUserAccessibleAgentIds(userId, isAgentAdmin)]
    /\ UNCHANGED <<agentsTable, teamMembersTable, agentTeamsTable>>
    /\ AgentTeamsUnchanged

NextAgentTeams ==
    \/ AgentCreate
    \/ TeamAddMember
    \/ TeamRemoveMember
    \/ SyncAgentTeams
    \/ AssignTeamsToAgent
    \/ RemoveTeamFromAgent
    \/ AccessQuery

(***************************************************************************)
(* isTransientDbError on cause chains                                      *)
(***************************************************************************)
MaxChainLength == 8   \* the errors of a cause chain: one thrown value and its wrappers

ErrorValue(isError, code, message) == [isError |-> isError, code |-> code, message |-> message]

\* values a query can throw: Object.assign(new Error("db error"), { code }),
\* new Error(message), and values that are not Errors
ThrownValues ==
    {ErrorValue(TRUE, code, <<"db", "error">>) : code \in TRANSIENT_PG_CODES \cup {"23505"}}
    \cup {ErrorValue(TRUE, "", message) : message \in
            {<<"connect", "ECONNREFUSED", "10.2.124.50:5432">>, <<"read", "ECONNRESET">>,
             <<"write", "EPIPE">>, <<"connect", "ETIMEDOUT">>,
             <<"Connection", "terminated", "unexpectedly">>, <<"timeout", "expired">>,
             <<"duplicate", "key", "value", "violates", "unique", "constraint">>,
             <<"Connection", "was", "terminated">>, <<"econnrefused">>}}
    \cup {ErrorValue(FALSE, "", <<"ECONNREFUSED">>),
          ErrorValue(FALSE, "", <<>>),
          ErrorValue(FALSE, "08006", <<"db", "error">>)}

\* new Error(message, { cause })
WrapperValues ==
    {ErrorValue(TRUE, "", <<"Failed", "query:", "SELECT", "1">>),
     ErrorValue(TRUE, "", <<"Connection", "terminated", "due", "to", "connection", "timeout">>)}

NoClassification == [called |-> FALSE, result |-> FALSE, inspected |-> 0]

InitClassify ==
    /\ errChain = <<>>
    /\ errCyclic = FALSE
    /\ errResult = NoClassification

ClassifyUnchanged == UNCHANGED <<varsRetry, varsLabels, varsSecrets, varsSso, varsA2A, varsOrg, varsInteractions, varsAgentTeams, varsAuthCheck, varsWithPermissions, varsMembers, varsTheme, varsInvitations, varsOrgCalls, varsReadme>>

\* the chain as a heap: errChain[1] is the value thrown first, each later
\* element has the one before it as cause; in a cyclic chain the first
\* error's cause is the outermost error; 0 is no value
ChainHeap ==
    [i \in DOMAIN errChain |->
        [isError |-> errChain[i].isError, code |-> errChain[i].code,
         message |-> errChain[i].message,
         cause |-> IF i > 1 THEN i - 1 ELSE IF errCyclic THEN Len(errChain) ELSE 0]]

\* the reference handed to isTransientDbError: the outermost error, or an
\* absent value when nothing was thrown
Outermost == Len(errChain)

\* a value is thrown
ThrowValue ==
    /\ errChain = <<>>
    /\ \E value \in ThrownValues : errChain' = <<value>>
    /\ errResult' = NoClassification
    /\ UNCHANGED errCyclic
    /\ ClassifyUnchanged

\* error = new Error(message, { cause: error })
WrapError ==
    /\ errChain # <<>>
    /\ Len(errChain) < MaxChainLength
    /\ ~errCyclic
    /\ \E wrapper \in WrapperValues : errChain' = Append(errChain, wrapper)
    /\ errResult' = NoClassification
    /\ UNCHANGED errCyclic
    /\ ClassifyUnchanged

\* inner.cause = outer: the chain becomes circular
CloseCycle ==
    /\ errChain # <<>>
    /\ errChain[1].isError
    /\ ~errCyclic
    /\ errCyclic' = TRUE
    /\ errResult' = NoClassification
    /\ UNCHANGED errChain
    /\ ClassifyUnchanged

\* isTransientDbError(error)
Classify ==
    /\ ~errResult.called
    /\ errResult' = [called |-> TRUE,
                     result |-> isTransientDbErrorIn(ChainHeap, Outermost, 0),
                     inspected |-> InspectedErrors(ChainHeap, Outermost, 0)]
    /\ UNCHANGED <<errChain, errCyclic>>
    /\ ClassifyUnchanged

NextClassify ==
    \/ ThrowValue
    \/ WrapError
    \/ CloseCycle
    \/ Classify

(***************************************************************************)
(* Frontend: WithAuthCheck                                                 *)
(***************************************************************************)
\* a pathname is the sequence of its segments; "/" is the empty sequence
Pathnames ==
    {<<>>, <<"auth", "sign-in">>, <<"auth", "sign-up">>, <<"auth", "two-factor">>,
     <<"settings", "members">>}

StartsWith(pathname, prefix) ==
    Len(pathname) >= Len(prefix) /\ SubSeq(pathname, 1, Len(prefix)) = prefix

pathCorrespondsToAnAuthPage(pathname) ==
    StartsWith(pathname, <<"auth", "sign-in">>) \/ StartsWith(pathname, <<"auth", "sign-up">>)

isSpecialAuthPage(pathname) == StartsWith(pathname, <<"auth", "two-factor">>)

\* requiredPagePermissionsMap[pathname] is defined
HasRequiredPagePermissions(pathname) == pathname = <<"settings", "members">>

\* the hook values one render of WithAuthCheck sees
Unrendered ==
    [pathname |-> <<>>, isMounted |-> FALSE, isLoggedIn |-> FALSE,
     isAuthPending |-> TRUE, isAuthRefetching |-> FALSE,
     isPermissionCheckPending |-> TRUE, hasRequiredPermissions |-> FALSE]

InitAuthCheck ==
    /\ wac = Unrendered
    /\ wacRendered = "unrendered"
    /\ wacPushed = {}

AuthCheckUnchanged == UNCHANGED <<varsRetry, varsLabels, varsSecrets, varsSso, varsA2A, varsOrg, varsInteractions, varsAgentTeams, varsClassify, varsWithPermissions, varsMembers, varsTheme, varsInvitations, varsOrgCalls, varsReadme>>

isAuthInitializing(h) ==
    IF h.isMounted THEN h.isAuthPending /\ ~h.isAuthRefetching ELSE h.isAuthPending

inProgress(h) ==
    IF pathCorrespondsToAnAuthPage(h.pathname) \/ isSpecialAuthPage(h.pathname)
    THEN isAuthInitializing(h)
    ELSE isAuthInitializing(h) \/ h.isPermissionCheckPending

\* the render branches: what the component returns
RenderAuthCheck(h) ==
    IF inProgress(h) THEN "null"
    ELSE IF isSpecialAuthPage(h.pathname) THEN "children"
    ELSE IF pathCorrespondsToAnAuthPage(h.pathname) /\ h.isLoggedIn THEN "null"
    ELSE IF ~pathCorrespondsToAnAuthPage(h.pathname) /\ ~h.isLoggedIn THEN "null"
    ELSE "children"

\* the router.push calls of the login redirect effect
LoginRedirect(h) ==
    IF isAuthInitializing(h) \/ h.isAuthRefetching THEN {}
    ELSE IF isSpecialAuthPage(h.pathname) THEN {}
    ELSE IF pathCorrespondsToAnAuthPage(h.pathname) /\ h.isLoggedIn THEN {<<>>}
    ELSE IF ~pathCorrespondsToAnAuthPage(h.pathname) /\ ~h.isLoggedIn THEN {<<"auth", "sign-in">>}
    ELSE {}

LoginRedirectDeps(h) ==
    <<isAuthInitializing(h), h.isAuthRefetching, pathCorrespondsToAnAuthPage(h.pathname),
      h.isLoggedIn, isSpecialAuthPage(h.pathname)>>

\* the router.push calls of the permission redirect effect
PermissionRedirect(h) ==
    IF inProgress(h) THEN {}
    ELSE IF HasRequiredPagePermissions(h.pathname) /\ ~h.hasRequiredPermissions THEN {<<>>}
    ELSE {}

PermissionRedirectDeps(h) ==
    <<inProgress(h), HasRequiredPagePermissions(h.pathname), h.hasRequiredPermissions>>

\* the effects of a commit: each runs on the first commit and when one of
\* its dependencies changed
Effects(before, firstCommit, h) ==
    (IF firstCommit \/ LoginRedirectDeps(before) # LoginRedirectDeps(h)
     THEN LoginRedirect(h) ELSE {})
    \cup
    (IF firstCommit \/ PermissionRedirectDeps(before) # PermissionRedirectDeps(h)
     THEN PermissionRedirect(h) ELSE {})

\* one render and commit with the new hook values
Commit(h) ==
    /\ wac' = h
    /\ wacRendered' = RenderAuthCheck(h)
    /\ wacPushed' = Effects(wac, wacRendered = "unrendered", h)
    /\ AuthCheckUnchanged

\* the first render: the session and the permission check may already be
\* answered from a cache
FirstRender ==
    /\ wacRendered = "unrendered"
    /\ \E pathname \in Pathnames, isLoggedIn \in BOOLEAN, isAuthPending \in BOOLEAN,
          isPermissionCheckPending \in BOOLEAN, hasRequiredPermissions \in BOOLEAN :
          /\ isAuthPending => ~isLoggedIn
          /\ isPermissionCheckPending => ~hasRequiredPermissions
          /\ Commit([pathname |-> pathname, isMounted |-> FALSE, isLoggedIn |-> isLoggedIn,
                     isAuthPending |-> isAuthPending, isAuthRefetching |-> FALSE,
                     isPermissionCheckPending |-> isPermissionCheckPending,
                     hasRequiredPermissions |-> hasRequiredPermissions])

\* useEffect(() => setIsMounted(true), [])
SetIsMounted ==
    /\ wacRendered # "unrendered"
    /\ ~wac.isMounted
    /\ Commit([wac EXCEPT !.isMounted = TRUE])

\* authClient.useSession() answers
SessionResolves ==
    /\ wacRendered # "unrendered"
    /\ wac.isAuthPending \/ wac.isAuthRefetching
    /\ \E isLoggedIn \in BOOLEAN :
          Commit([wac EXCEPT !.isLoggedIn = isLoggedIn, !.isAuthPending = FALSE,
                             !.isAuthRefetching = FALSE])

\* the session is fetched again (window focus, sign-in, sign-out)
SessionRefetches ==
    /\ wacRendered # "unrendered"
    /\ ~wac.isAuthPending
    /\ ~wac.isAuthRefetching
    /\ Commit([wac EXCEPT !.isAuthRefetching = TRUE])

\* useHasPermissions answers
PermissionCheckResolves ==
    /\ wacRendered # "unrendered"
    /\ wac.isPermissionCheckPending
    /\ \E hasRequiredPermissions \in BOOLEAN :
          Commit([wac EXCEPT !.isPermissionCheckPending = FALSE,
                             !.hasRequiredPermissions = hasRequiredPermissions])

\* the pathname changes (a pushed redirect lands, or the user navigates); the
\* permission check of the new page starts, or is answered from the cache
Navigate ==
    /\ wacRendered # "unrendered"
    /\ \E pathname \in Pathnames \ {wac.pathname}, isPermissionCheckPending \in BOOLEAN,
          hasRequiredPermissions \in BOOLEAN :
          /\ isPermissionCheckPending => ~hasRequiredPermissions
          /\ Commit([wac EXCEPT !.pathname = pathname,
                                !.isPermissionCheckPending = isPermissionCheckPending,
                                !.hasRequiredPermissions = hasRequiredPermissions])

NextAuthCheck ==
    \/ FirstRender
    \/ SetIsMounted
    \/ SessionResolves
    \/ SessionRefetches
    \/ PermissionCheckResolves
    \/ Navigate

(***************************************************************************)
(* Frontend: useHasPermissions, WithPermission, WithPermissions            *)
(***************************************************************************)
MaxPermissions == 2    \* length of a permissions prop
MaxChecks == 2         \* hasPermission calls awaiting their answer

\* a Permission is the string resource ":" action, kept as its three parts
PermissionOf(resource, action) == <<resource, ":", action>>

PermissionStrings ==
    {PermissionOf("agent", "read"), PermissionOf("agent", "delete"), PermissionOf("tool", "read")}

PermissionLists ==
    UNION {[1..n -> PermissionStrings] : n \in 0..MaxPermissions}

\* permission.split(":")
SplitPermission(permission) == <<permission[1], permission[3]>>

\* permissions.reduce((acc, permission) => { acc[resource] = [action]; ... }, {})
RECURSIVE PermissionMapFrom(_, _)
PermissionMapFrom(acc, permissions) ==
    IF permissions = <<>> THEN acc
    ELSE LET pair == SplitPermission(Head(permissions))
             rest == [r \in DOMAIN acc \ {pair[1]} |-> acc[r]]
         IN PermissionMapFrom(rest @@ (pair[1] :> <<pair[2]>>), Tail(permissions))

permissionMap(permissions) == PermissionMapFrom(<<>>, permissions)

\* authClient.organization.hasPermission: the member's role grants every
\* action asked for on every resource of the map
hasPermission(granted, permissions) ==
    \A resource \in DOMAIN permissions :
        \A i \in DOMAIN permissions[resource] :
            <<resource, permissions[resource][i]>> \in granted

GrantedSets == SUBSET {SplitPermission(p) : p \in PermissionStrings}

InitWithPermissions ==
    /\ wpPermissions = <<>>
    /\ wpGranted = {}
    /\ wpHasPermissions = FALSE
    /\ wpChecks = {}
    /\ wpRendered = "unrendered"

WithPermissionsUnchanged == UNCHANGED <<varsRetry, varsLabels, varsSecrets, varsSso, varsA2A, varsOrg, varsInteractions, varsAgentTeams, varsClassify, varsAuthCheck, varsMembers, varsTheme, varsInvitations, varsOrgCalls, varsReadme>>

\* if (!hasPermissions) return null; return children
RenderWithPermissions(hasPermissions) == IF hasPermissions THEN "children" ELSE "null"

\* one render of WithPermissions and its effect, which starts a check of the
\* permission map of this render
RenderAndCheck(permissions, hasPermissions, checks) ==
    /\ wpPermissions' = permissions
    /\ wpHasPermissions' = hasPermissions
    /\ wpRendered' = RenderWithPermissions(hasPermissions)
    /\ wpChecks' = checks \cup {permissionMap(permissions)}

\* first render: useState(false)
MountWithPermissions ==
    /\ wpRendered = "unrendered"
    /\ \E permissions \in PermissionLists, granted \in GrantedSets :
          /\ wpGranted' = granted
          /\ RenderAndCheck(permissions, FALSE, {})
    /\ WithPermissionsUnchanged

\* the parent renders again with another permissions prop
RerenderWithPermissions ==
    /\ wpRendered # "unrendered"
    /\ Cardinality(wpChecks) < MaxChecks
    /\ \E permissions \in PermissionLists \ {wpPermissions} :
          RenderAndCheck(permissions, wpHasPermissions, wpChecks)
    /\ UNCHANGED wpGranted
    /\ WithPermissionsUnchanged

\* a check answers: setHasPermissions(result.data?.success ?? false); a
\* changed state renders again
CheckPermissionsResolves ==
    /\ \E check \in wpChecks :
          LET success == hasPermission(wpGranted, check) IN
          IF success = wpHasPermissions
          THEN /\ wpChecks' = wpChecks \ {check}
               /\ UNCHANGED <<wpPermissions, wpHasPermissions, wpRendered>>
          ELSE RenderAndCheck(wpPermissions, success, wpChecks \ {check})
    /\ UNCHANGED wpGranted
    /\ WithPermissionsUnchanged

NextWithPermissions ==
    \/ MountWithPermissions
    \/ RerenderWithPermissions
    \/ CheckPermissionsResolves

(***************************************************************************)
(* MemberModel                                                             *)
(***************************************************************************)
MemberIds == {"member-1", "member-2", "member-3"}
MemberUserIds == {"user-1", "user-2"}
MemberOrganizationIds == {"org-1", "org-2"}
MEMBER_ROLE_NAME == "member"
ADMIN_ROLE_NAME == "admin"
RoleNames == {MEMBER_ROLE_NAME, ADMIN_ROLE_NAME}

Undefined == [undefined |-> TRUE]
NoMemberCall == [call |-> "none"]

InitMembers ==
    /\ membersTable = {}
    /\ memberCall = NoMemberCall

MembersUnchanged == UNCHANGED <<varsRetry, varsLabels, varsSecrets, varsSso, varsA2A, varsOrg, varsInteractions, varsAgentTeams, varsClassify, varsAuthCheck, varsWithPermissions, varsTheme, varsInvitations, varsOrgCalls, varsReadme>>

\* MemberModel.create: the id is a fresh crypto.randomUUID()
MemberCreate ==
    /\ \E id \in MemberIds \ {row.id : row \in membersTable},
          userId \in MemberUserIds, organizationId \in MemberOrganizationIds,
          role \in RoleNames :
          membersTable' = membersTable \cup
              {[id |-> id, userId |-> userId, organizationId |-> organizationId,
                role |-> role]}
    /\ memberCall' = NoMemberCall
    /\ MembersUnchanged

\* where(eq(membersTable.id, memberIdOrUserId))
WhereMemberId(row, memberIdOrUserId) == row.id = memberIdOrUserId

\* where(and(eq(userId, memberIdOrUserId), eq(organizationId, organizationId)))
WhereUserInOrganization(row, memberIdOrUserId, organizationId) ==
    row.userId = memberIdOrUserId /\ row.organizationId = organizationId

\* MemberModel.deleteByMemberOrUserId; deleted[0] is any one of the rows the
\* statement returned
deleteByMemberOrUserId ==
    /\ membersTable # {}
    /\ \E memberIdOrUserId \in MemberIds \cup MemberUserIds,
          organizationId \in MemberOrganizationIds \cup {""} :
          LET byId == {row \in membersTable : WhereMemberId(row, memberIdOrUserId)}
              byUser == {row \in membersTable :
                            WhereUserInOrganization(row, memberIdOrUserId, organizationId)}
              deleted == IF byId # {} THEN byId
                         ELSE IF organizationId # "" THEN byUser
                         ELSE {}
          IN /\ membersTable' = membersTable \ deleted
             /\ \E first \in IF deleted = {} THEN {Undefined} ELSE deleted :
                   memberCall' = [call |-> "deleteByMemberOrUserId",
                                  memberIdOrUserId |-> memberIdOrUserId,
                                  organizationId |-> organizationId,
                                  before |-> membersTable,
                                  returned |-> first]
    /\ MembersUnchanged

NextMembers ==
    \/ MemberCreate
    \/ deleteByMemberOrUserId

(***************************************************************************)
(* Frontend: OrganizationThemeProvider and the appearance preview          *)
(***************************************************************************)
\* ids of the theme catalog (themes.ts) and of fontFamilyMap
ThemeCatalog == {"cosmic-night", "aubergine"}
FontCatalog == {"lato", "inter"}

\* the values the theme and customFont columns (plain text) can hold; "" stands
\* for null / undefined
ThemeIds == ThemeCatalog \cup {"", "retired-theme"}
FontIds == FontCatalog \cup {"", "retired-font"}
ColorModes == {"light", "dark"}

NoAppearance == [loaded |-> FALSE]
Stylesheet == "stylesheet"    \* a CSS variable no effect has set yet
StylesheetPalette == <<Stylesheet, Stylesheet>>

InitTheme ==
    /\ appearance = NoAppearance
    /\ previewTheme = ""
    /\ previewFont = ""
    /\ colorMode = "light"
    /\ rootStyle = [palette |-> StylesheetPalette, fontSans |-> Stylesheet]
    /\ themeEffect = "none"

ThemeUnchanged == UNCHANGED <<varsRetry, varsLabels, varsSecrets, varsSso, varsA2A, varsOrg, varsInteractions, varsAgentTeams, varsClassify, varsAuthCheck, varsWithPermissions, varsMembers, varsInvitations, varsOrgCalls, varsReadme>>

\* a || b || c on strings
OrElse(a, b) == IF a # "" THEN a ELSE b

\* themes.find((theme) => theme.id === id); the palette of a theme and a color
\* mode is named by the pair
getThemeById(id) == IF id \in ThemeCatalog THEN [id |-> id] ELSE Undefined

\* fontFamilyMap[fontFamily] || fontFamilyMap.lato
fontValue(fontFamily) == IF fontFamily \in FontCatalog THEN fontFamily ELSE "lato"

\* the body shared by the provider effect and the preview effect: the CSS
\* variables of the document root afterwards
ApplyTheme(style, themeId, fontFamily, mode) ==
    LET theme == getThemeById(themeId) IN
    IF theme = Undefined THEN style
    ELSE [palette |-> <<theme.id, mode>>, fontSans |-> fontValue(fontFamily)]

\* the effect of OrganizationThemeProvider
ProviderEffect(style, app, pTheme, pFont, mode) ==
    IF ~app.loaded THEN style
    ELSE ApplyTheme(style, OrElse(pTheme, OrElse(app.theme, "cosmic-night")),
                    OrElse(pFont, OrElse(app.customFont, "lato")), mode)

\* useOrganizationAppearance answers, first or after an invalidation
AppearanceLoads ==
    /\ \E theme \in ThemeIds, customFont \in FontIds :
          LET app == [loaded |-> TRUE, theme |-> theme, customFont |-> customFont] IN
          /\ app # appearance
          /\ appearance' = app
          /\ rootStyle' = ProviderEffect(rootStyle, app, previewTheme, previewFont, colorMode)
    /\ themeEffect' = "provider"
    /\ UNCHANGED <<previewTheme, previewFont, colorMode>>
    /\ ThemeUnchanged

\* the parent passes other previewTheme / previewFont props
PreviewPropsChange ==
    /\ \E pTheme \in ThemeIds, pFont \in FontIds :
          /\ <<pTheme, pFont>> # <<previewTheme, previewFont>>
          /\ previewTheme' = pTheme
          /\ previewFont' = pFont
          /\ rootStyle' = ProviderEffect(rootStyle, appearance, pTheme, pFont, colorMode)
    /\ themeEffect' = "provider"
    /\ UNCHANGED <<appearance, colorMode>>
    /\ ThemeUnchanged

\* next-themes switches between light and dark
ColorModeChanges ==
    /\ \E mode \in ColorModes \ {colorMode} :
          /\ colorMode' = mode
          /\ rootStyle' = ProviderEffect(rootStyle, appearance, previewTheme, previewFont, mode)
    /\ themeEffect' = "provider"
    /\ UNCHANGED <<appearance, previewTheme, previewFont>>
    /\ ThemeUnchanged

\* AppearanceSettingsPage: the real-time preview effect after the admin
\* selects a theme and a font
ApplyPreview ==
    /\ appearance.loaded
    /\ \E selectedTheme \in ThemeIds \ {""}, selectedFont \in FontIds \ {""} :
          rootStyle' = ApplyTheme(rootStyle, selectedTheme, selectedFont, colorMode)
    /\ themeEffect' = "preview"
    /\ UNCHANGED <<appearance, previewTheme, previewFont, colorMode>>
    /\ ThemeUnchanged

NextTheme ==
    \/ AppearanceLoads
    \/ PreviewPropsChange
    \/ ColorModeChanges
    \/ ApplyPreview

(***************************************************************************)
(* InvitationModel                                                         *)
(***************************************************************************)
InvitationIds == {"invitation-1"}
UnknownInvitationId == "invitation-2"
InvitationStatuses == {"pending", "accepted", "declined"}
SessionIds == {"session-1", "invalid-session-id"}
NoAcceptCall == [call |-> "none"]

InitInvitations ==
    /\ invitationsTable = {}
    /\ usersRole = [u \in MemberUserIds |-> ""]
    /\ sessionsActiveOrganization = [s \in {"session-1"} |-> ""]
    /\ acceptCall = NoAcceptCall

InvitationsUnchanged == UNCHANGED <<varsRetry, varsLabels, varsSecrets, varsSso, varsA2A, varsOrg, varsInteractions, varsAgentTeams, varsClassify, varsAuthCheck, varsWithPermissions, varsMembers, varsTheme, varsOrgCalls, varsReadme>>

AcceptUnchanged == UNCHANGED <<varsRetry, varsLabels, varsSecrets, varsSso, varsA2A, varsOrg, varsInteractions, varsAgentTeams, varsClassify, varsAuthCheck, varsWithPermissions, varsTheme, varsOrgCalls, varsReadme>>

\* an invitation is inserted: pending, not yet expired
InvitationCreate ==
    /\ \E id \in InvitationIds \ {i.id : i \in invitationsTable},
          organizationId \in MemberOrganizationIds, role \in RoleNames \cup {""} :
          invitationsTable' = invitationsTable \cup
              {[id |-> id, organizationId |-> organizationId, role |-> role,
                status |-> "pending", expired |-> FALSE]}
    /\ acceptCall' = NoAcceptCall
    /\ UNCHANGED <<usersRole, sessionsActiveOrganization>>
    /\ InvitationsUnchanged

\* InvitationModel.patch(id, {status}) / patch(id, {role})
InvitationPatch ==
    /\ \E invitation \in invitationsTable, status \in InvitationStatuses,
          role \in RoleNames \cup {""} :
          /\ status = invitation.status \/ role = invitation.role
          /\ <<status, role>> # <<invitation.status, invitation.role>>
          /\ invitationsTable' = (invitationsTable \ {invitation}) \cup
                {[invitation EXCEPT !.status = status, !.role = role]}
    /\ acceptCall' = NoAcceptCall
    /\ UNCHANGED <<usersRole, sessionsActiveOrganization>>
    /\ InvitationsUnchanged

\* expiresAt passes
InvitationExpires ==
    /\ \E invitation \in invitationsTable :
          /\ ~invitation.expired
          /\ invitationsTable' = (invitationsTable \ {invitation}) \cup
                {[invitation EXCEPT !.expired = TRUE]}
    /\ acceptCall' = NoAcceptCall
    /\ UNCHANGED <<usersRole, sessionsActiveOrganization>>
    /\ InvitationsUnchanged

\* the condition under which accept processes an invitation it found: none on
\* status or expiry
AcceptProcessesPendingOnly(invitation) == invitation.status = "pending" /\ ~invitation.expired
AcceptProcesses(invitation) == TRUE

\* invitation.role || MEMBER_ROLE_NAME
AcceptedRole(invitation) == IF invitation.role # "" THEN invitation.role ELSE MEMBER_ROLE_NAME

\* InvitationModel.accept(session, user, invitationId): a Member row with the
\* invitation's role, the invitation marked accepted, the user's role
\* promoted, the session's active organization set; nothing for an unknown id
InvitationAccept ==
    /\ \E session \in SessionIds, user \in MemberUserIds,
          invitationId \in InvitationIds \cup {UnknownInvitationId},
          memberId \in MemberIds \ {row.id : row \in membersTable} :
          LET found == {i \in invitationsTable : i.id = invitationId /\ AcceptProcesses(i)} IN
          /\ acceptCall' = [call |-> "accept", user |-> user,
                            invitations |-> {i \in invitationsTable : i.id = invitationId},
                            members |-> {row \in membersTable : row.userId = user},
                            threw |-> FALSE]
          /\ IF found = {}
             THEN UNCHANGED <<invitationsTable, membersTable, usersRole,
                              sessionsActiveOrganization>>
             ELSE LET invitation == CHOOSE i \in found : TRUE IN
                  /\ membersTable' = membersTable \cup
                        {[id |-> memberId, userId |-> user,
                          organizationId |-> invitation.organizationId,
                          role |-> AcceptedRole(invitation)]}
                  /\ invitationsTable' = (invitationsTable \ {invitation}) \cup
                        {[invitation EXCEPT !.status = "accepted"]}
                  /\ usersRole' = [usersRole EXCEPT ![user] = AcceptedRole(invitation)]
                  /\ sessionsActiveOrganization' =
                        [s \in DOMAIN sessionsActiveOrganization |->
                            IF s = session THEN invitation.organizationId
                            ELSE sessionsActiveOrganization[s]]
    /\ memberCall' = NoMemberCall
    /\ AcceptUnchanged

NextInvitations ==
    \/ InvitationCreate
    \/ InvitationPatch
    \/ InvitationExpires
    \/ InvitationAccept

(***************************************************************************)
(* Concurrent GET /api/organization/appearance requests: every await of    *)
(* the handler and of getOrCreateDefaultOrganization is one step.          *)
(***************************************************************************)
MaxOrgCallers == 3    \* requests in flight at once
OrgCallers == 1..MaxOrgCallers

IdleOrgCall == [pc |-> "idle", user |-> NoUser, status |-> 0, type |-> "none", organization |-> "none"]

InitOrgCalls == orgCalls = [p \in OrgCallers |-> IdleOrgCall]

OrgCallsUnchanged == UNCHANGED <<varsRetry, varsLabels, varsSecrets, varsSso, varsA2A, varsInteractions, varsAgentTeams, varsClassify, varsAuthCheck, varsWithPermissions, varsMembers, varsTheme, varsInvitations, varsReadme>>

\* const user = await getUserFromRequest(request); if (!user) 401
AppearanceGetUser(p) ==
    /\ orgCalls[p].pc = "idle"
    /\ \E user \in OrgUsers :
          orgCalls' = [orgCalls EXCEPT ![p] =
              IF ~user.present
              THEN [IdleOrgCall EXCEPT !.pc = "replied", !.user = user, !.status = 401,
                                       !.type = "unauthorized"]
              ELSE [IdleOrgCall EXCEPT !.pc = "select", !.user = user]]
    /\ UNCHANGED varsOrg
    /\ OrgCallsUnchanged

\* getOrCreateDefaultOrganization: select().from(organizationsTable).limit(1);
\* an existing row is returned and the handler replies with its appearance
DefaultOrgSelect(p) ==
    /\ orgCalls[p].pc = "select"
    /\ IF organizationsTable = {}
       THEN orgCalls' = [orgCalls EXCEPT ![p].pc = "insert"]
       ELSE \E existingOrg \in organizationsTable :
               orgCalls' = [orgCalls EXCEPT ![p].pc = "replied", ![p].status = 200,
                                            ![p].type = "ok",
                                            ![p].organization = existingOrg.id]
    /\ UNCHANGED varsOrg
    /\ OrgCallsUnchanged

\* the primary key on id (and the unique slug) rejects a second default row
PrimaryKeyTaken(tbl, id) == \E r \in tbl : r.id = id

\* getOrCreateDefaultOrganization: insert(...).values({id: "default-org", ...})
\* .returning(); a duplicate key error is caught by the handler: 500 api_error
DefaultOrgInsert(p) ==
    /\ orgCalls[p].pc = "insert"
    /\ IF PrimaryKeyTaken(organizationsTable, DefaultOrganization.id)
       THEN /\ orgCalls' = [orgCalls EXCEPT ![p].pc = "replied", ![p].status = 500,
                                            ![p].type = "api_error"]
            /\ UNCHANGED organizationsTable
       ELSE /\ organizationsTable' = organizationsTable \cup {DefaultOrganization}
            /\ orgCalls' = [orgCalls EXCEPT ![p].pc = "replied", ![p].status = 200,
                                            ![p].type = "ok",
                                            ![p].organization = DefaultOrganization.id]
    /\ UNCHANGED orgReply
    /\ OrgCallsUnchanged

NextOrgCalls ==
    \E p \in OrgCallers :
        \/ AppearanceGetUser(p)
        \/ DefaultOrgSelect(p)
        \/ DefaultOrgInsert(p)

(***************************************************************************)
(* Frontend: ReadmeDialog.  The steps are the runs of the fetch effect up  *)
(* to its first await and the continuations after each awaited fetch.      *)
(***************************************************************************)
MaxReadmeFetches == 3    \* fetchReadme runs that reach a fetch

\* the registry servers: `repository` is "github", another host or absent;
\* `readme` is the branch that has a README.md, "" when none has
NoServer == [name |-> "none", repository |-> "", readme |-> ""]
ReadmeServers ==
    {[name |-> "on-main", repository |-> "github", readme |-> "main"],
     [name |-> "on-master", repository |-> "github", readme |-> "master"],
     [name |-> "no-readme", repository |-> "github", readme |-> ""],
     [name |-> "gitlab", repository |-> "gitlab", readme |-> ""],
     [name |-> "no-repository", repository |-> "", readme |-> ""]}

branches == <<"main", "master">>

\* what the state hooks hold: the text, and the server it was fetched for
NoContent == [text |-> "", of |-> "none"]
NoError == [text |-> "", of |-> "none"]
ReadmeOf(s) == [text |-> "README", of |-> s.name]
ErrorOf(message, s) == [text |-> message, of |-> s.name]

InitReadme ==
    /\ readmeServer = NoServer
    /\ readmeContent = NoContent
    /\ readmeLoading = FALSE
    /\ readmeError = NoError
    /\ readmeFetches = {}
    /\ readmeFetchCount = 0

ReadmeUnchanged == UNCHANGED <<varsRetry, varsLabels, varsSecrets, varsSso, varsA2A, varsOrg, varsInteractions, varsAgentTeams, varsClassify, varsAuthCheck, varsWithPermissions, varsMembers, varsTheme, varsInvitations, varsOrgCalls>>

\* server.repository.match(/github\.com\/([^/]+)\/([^/]+)/)
githubMatch(s) == s.repository = "github"

\* the parent passes server = null: the dialog closes
CloseReadme ==
    /\ readmeServer # NoServer
    /\ readmeServer' = NoServer
    /\ readmeContent' = NoContent
    /\ readmeError' = NoError
    /\ readmeLoading' = FALSE
    /\ UNCHANGED <<readmeFetches, readmeFetchCount>>
    /\ ReadmeUnchanged

\* the parent passes another server: the effect runs fetchReadme up to its
\* first await
SelectServer ==
    /\ \E s \in ReadmeServers \ {readmeServer} :
          /\ readmeServer' = s
          /\ IF s.repository = ""
             THEN /\ readmeError' = ErrorOf("No repository URL available", s)
                  /\ readmeLoading' = FALSE
                  /\ UNCHANGED <<readmeFetches, readmeFetchCount>>
             ELSE IF ~githubMatch(s)
             THEN /\ readmeError' = ErrorOf("Not a GitHub repository", s)
                  /\ readmeLoading' = FALSE
                  /\ UNCHANGED <<readmeFetches, readmeFetchCount>>
             ELSE /\ readmeFetchCount < MaxReadmeFetches
                  /\ readmeError' = NoError
                  /\ readmeLoading' = TRUE
                  /\ readmeFetches' = readmeFetches \cup {[id |-> readmeFetchCount + 1, of |-> s, branch |-> 1]}
                  /\ readmeFetchCount' = readmeFetchCount + 1
    /\ UNCHANGED readmeContent
    /\ ReadmeUnchanged

\* an awaited fetch(rawUrl) answers: response.ok and the text, or the next
\* branch, or "README.md not found".  The continuation writes the state hooks
\* whatever server is selected by then: the effect returns no cleanup.
FetchAnswers ==
    /\ \E f \in readmeFetches :
          IF f.of.readme = branches[f.branch]
          THEN /\ readmeFetches' = readmeFetches \ {f}
               /\ readmeContent' = ReadmeOf(f.of)
               /\ readmeLoading' = FALSE
               /\ UNCHANGED readmeError
          ELSE IF f.branch < Len(branches)
          THEN /\ readmeFetches' = (readmeFetches \ {f}) \cup {[f EXCEPT !.branch = f.branch + 1]}
               /\ UNCHANGED <<readmeContent, readmeLoading, readmeError>>
          ELSE /\ readmeFetches' = readmeFetches \ {f}
               /\ readmeError' = ErrorOf("README.md not found", f.of)
               /\ readmeLoading' = FALSE
               /\ UNCHANGED readmeContent
    /\ UNCHANGED <<readmeServer, readmeFetchCount>>
    /\ ReadmeUnchanged

NextReadme ==
    \/ CloseReadme
    \/ SelectServer
    \/ FetchAnswers

vars == <<varsRetry, varsLabels, varsSecrets, varsSso, varsA2A, varsOrg, varsInteractions, varsAgentTeams, varsClassify, varsAuthCheck, varsWithPermissions, varsMembers, varsTheme, varsInvitations, varsOrgCalls, varsReadme>>

Init == InitRetry /\ InitLabels /\ InitSecrets /\ InitSso /\ InitA2A /\ InitOrg /\ InitInteractions /\ InitAgentTeams /\ InitClassify /\ InitAuthCheck /\ InitWithPermissions /\ InitMembers /\ InitTheme /\ InitInvitations /\ InitOrgCalls /\ InitReadme

SpecRetry == Init /\ [][NextRetry]_vars

SpecGetOrCreate == Init /\ [][NextGetOrCreate]_vars

SpecLabels == Init /\ [][NextLabels]_vars

SpecOneSyncer == Init /\ [][NextOneSyncer]_vars

SpecSecretModel == Init /\ [][NextSecretModel]_vars

SpecRotation == Init /\ [][NextRotation]_vars

SpecSso == Init /\ [][NextSso]_vars

SpecA2A == Init /\ [][NextA2A]_vars

SpecOrg == Init /\ [][NextOrg]_vars

SpecInteractions == Init /\ [][NextInteractions]_vars

SpecAgentTeams == Init /\ [][NextAgentTeams]_vars

SpecClassify == Init /\ [][NextClassify]_vars

SpecAuthCheck == Init /\ [][NextAuthCheck]_vars

SpecWithPermissions == Init /\ [][NextWithPermissions]_vars

SpecMembers == Init /\ [][NextMembers]_vars

SpecTheme == Init /\ [][NextTheme]_vars

SpecInvitations == Init /\ [][NextInvitations]_vars

SpecOrgCalls == Init /\ [][NextOrgCalls]_vars

SpecReadme == Init /\ [][NextReadme]_vars

(***************************************************************************)
(* Claims about the retry wrapper                                          *)
(***************************************************************************)
IsTransientFailure(o) == o # "ok" /\ isTransientDbError(o)

AllTransientFailures(log) == \A i \in 1..Len(log) : IsTransientFailure(log[i])

\* C1: withDbRetry(fn, {maxRetries: N}), N >= 0: when every invocation of fn
\* fails with a transient error, fn is invoked exactly N+1 times (never more)
\* and withDbRetry then rejects with the error of the last attempt.
C1_ExhaustsAfterNPlusOne ==
    (rmode = "direct" /\ AllTransientFailures(rcalls)) =>
        /\ Len(rcalls) <= rmaxRetries + 1
        /\ rpc # "returned"
        /\ (Len(rcalls) = rmaxRetries + 1 => rpc \in {"catch", "threw"})
        /\ (rpc = "threw" =>
               /\ Len(rcalls) = rmaxRetries + 1
               /\ rerr = rcalls[Len(rcalls)])

C1_Witness ==
    /\ rmode = "direct"
    /\ rpc = "threw"
    /\ rmaxRetries = 2
    /\ Len(rcalls) = 3
    /\ AllTransientFailures(rcalls)

\* C2: withDbRetry never retries a non-transient error: every invocation of fn
\* that is followed by another one failed with a transient error, and after a
\* non-transient failure the call only rethrows that same error.
C2_NoRetryOfNonTransient ==
    rmode = "direct" =>
        /\ \A i \in 1..(Len(rcalls) - 1) : IsTransientFailure(rcalls[i])
        /\ (Len(rcalls) > 0 /\ rcalls[Len(rcalls)] # "ok"
              /\ ~isTransientDbError(rcalls[Len(rcalls)])) =>
               /\ rpc \in {"catch", "threw"}
               /\ rerr = rcalls[Len(rcalls)]

C2_Witness ==
    /\ rmode = "direct"
    /\ rpc = "threw"
    /\ rmaxRetries = MAX_RETRIES
    /\ rcalls = <<"e2">>
    /\ rerr = "e2"

\* C3: wrapPoolWithRetry is idempotent: on a pool wrapped once or several
\* times, a promise-style pool.query makes exactly the underlying query calls
\* one withDbRetry makes: it repeats only after a transient failure, at most
\* MAX_RETRIES + 1 times in all, and stops at the first success or
\* non-transient failure.
C3_WrapIdempotent ==
    (rmode = "pool" /\ rwrapped >= 1) =>
        /\ Len(rcalls) <= MAX_RETRIES + 1
        /\ \A i \in 1..(Len(rcalls) - 1) : IsTransientFailure(rcalls[i])
        /\ (rpc \in {"returned", "threw"} =>
               /\ Len(rcalls) >= 1
               /\ \/ ~IsTransientFailure(rcalls[Len(rcalls)])
                  \/ Len(rcalls) = MAX_RETRIES + 1)

C3_Witness ==
    /\ rmode = "pool"
    /\ rwrapped >= 2
    /\ rpc = "returned"
    /\ rcalls = <<"e1", "ok">>

(***************************************************************************)
(* Claims about the label dictionary                                       *)
(***************************************************************************)
GocPastInsert(t) ==
    {p \in GocProcs : goc[p].table = t /\ goc[p].pc \in {"select", "returned", "threw"}}

GocString(t) == IF t = "key" THEN "env" ELSE "prod"

RowsWithString(t) ==
    IF t = "key" THEN {r \in labelKeys : r.key = GocString(t)}
    ELSE {r \in labelValues : r.value = GocString(t)}

\* C4: for any number of concurrent getOrCreateKey(s) calls with the same
\* string (likewise getOrCreateValue), in every interleaving no call fails, all
\* calls return the same id, and exactly one row with that string exists once a
\* call has made its insert.
C4_SameIdOneRow ==
    \A t \in {"key", "value"} :
        GocPastInsert(t) # {} =>
            /\ Cardinality(RowsWithString(t)) = 1
            /\ \A p \in GocPastInsert(t) :
                  /\ goc[p].pc # "threw"
                  /\ goc[p].pc = "returned" =>
                        \A r \in RowsWithString(t) : goc[p].result = r.id

\* three or more concurrent getOrCreateKey("env") calls on a database without
\* that key have all returned
C4_Witness ==
    /\ \A p \in GocProcs : goc[p].pc = "returned" /\ goc[p].table = "key"
    /\ \E r \in labelKeys : r.key = "env" /\ r.id >= 100

\* the (keyId, valueId) pairs of the committed agent_labels rows of agent a
CommittedLabelPairs(a) ==
    {<<r.keyId, r.valueId>> : r \in {x \in agentLabels : x.agentId = a /\ x.ins = 0 /\ x.del = 0}}

SyncInFlight(a) == \E p \in SyncProcs : ~SyncFree(p) /\ sync[p].agentId = a

\* C5: when two syncAgentLabels calls for the same agent run concurrently, the
\* last transaction to commit wins: after both have committed, the agent's
\* junction rows are exactly the rows of the call that committed last.
C5_LastCommitWins ==
    \A a \in AgentIds :
        (syncCommits[a] >= 2 /\ ~SyncInFlight(a)) =>
            CommittedLabelPairs(a) =
                {<<lastCommitted[a][k].keyId, lastCommitted[a][k].valueId>> :
                    k \in 1..Len(lastCommitted[a])}

LastCommittedPairs(a) ==
    {<<lastCommitted[a][k].keyId, lastCommitted[a][k].valueId>> :
        k \in 1..Len(lastCommitted[a])}

\* the state C5 excludes in its plainest form: both calls have committed, the
\* one that committed last wrote a non-empty list, and the agent carries that
\* list and the other call's rows as well
C5_UnionOfBothCalls ==
    \E a \in AgentIds :
        /\ syncCommits[a] = 2
        /\ ~SyncInFlight(a)
        /\ LastCommittedPairs(a) # {}
        /\ LastCommittedPairs(a) \subseteq CommittedLabelPairs(a)
        /\ CommittedLabelPairs(a) # LastCommittedPairs(a)

\* C6: pruneKeysAndValues deletes exactly the keys and values that neither an
\* agent_labels row nor an mcp_catalog_labels row references when its orphan
\* query runs: once its deletes are done, no key (value) that was referenced
\* then has been deleted by it, and none that was unreferenced then is left.
C6_PruneExactlyOrphans ==
    \A q \in PruneProcs :
        /\ prune[q].pc \in {"delete_keys", "delete_values", "commit"} =>
              /\ prune[q].orphanedKeys = prune[q].keysSeen \ prune[q].keyRefsSeen
              /\ prune[q].orphanedValues = prune[q].valuesSeen \ prune[q].valueRefsSeen
        /\ prune[q].pc \in {"delete_values", "commit"} =>
              /\ \A r \in labelKeys :
                    /\ (r.id \in prune[q].keyRefsSeen => r.del # q)
                    /\ (r.id \in prune[q].keysSeen \ prune[q].keyRefsSeen => ~VisibleTo(r, q))
        /\ prune[q].pc = "commit" =>
              /\ \A r \in labelValues :
                    /\ (r.id \in prune[q].valueRefsSeen => r.del # q)
                    /\ (r.id \in prune[q].valuesSeen \ prune[q].valueRefsSeen => ~VisibleTo(r, q))

\* a prune that has deleted an unreferenced key and an unreferenced value
\* while keeping a key that no agent but a catalog item references
C6_Witness ==
    \E q \in PruneProcs :
        /\ prune[q].pc = "commit"
        /\ prune[q].deletedKeys >= 1
        /\ prune[q].deletedValues >= 1
        /\ \E r \in labelKeys :
              /\ r.id \in prune[q].keysSeen /\ r.del = 0
              /\ \E c \in catalogLabels : c.keyId = r.id
              /\ ~\E a \in agentLabels : a.keyId = r.id
(***************************************************************************)
(* Claims about secrets at rest                                            *)
(***************************************************************************)
RotationOldKey == deriveKeyFromSecret(rot.oldSecret)
RotationNewKey == deriveKeyFromSecret(rot.newSecret)

\* the object a row held before the rotation, as its owner wrote it
OriginalPlaintext(row) ==
    IF isEncryptedSecret(row.secret)
    THEN decryptSecretValueWithKey(row.secret, RotationOldKey).value
    ELSE row.secret

RealRotationReturned == rot.pc = "returned" /\ ~rot.dryRun

\* C7: after a non-dry-run rotateSecretEncryptionKey has succeeded on a table
\* of rows encrypted under the old secret and legacy plaintext rows, the table
\* holds the same rows, each stored as an encrypted wrapper that decrypts
\* under the new key to the row's original plaintext and does not decrypt
\* under the old key.
C7_RotatedToNewKeyOnly ==
    RealRotationReturned =>
        /\ {r.id : r \in secretsTable} = {r.id : r \in rot.startTable}
        /\ \A r0 \in rot.startTable, r \in secretsTable :
              r.id = r0.id =>
                  /\ isEncryptedSecret(r.secret)
                  /\ decryptSecretValueWithKey(r.secret, RotationNewKey).ok
                  /\ decryptSecretValueWithKey(r.secret, RotationNewKey).value
                        = OriginalPlaintext(r0)
                  /\ ~decryptSecretValueWithKey(r.secret, RotationOldKey).ok

\* a rotation has succeeded on a table that held both a row encrypted under
\* the old secret and a legacy plaintext row
C7_Witness ==
    /\ RealRotationReturned
    /\ \E r0 \in rot.startTable :
          isEncryptedSecret(r0.secret)
          /\ decryptSecretValueWithKey(r0.secret, RotationOldKey).ok
    /\ \E r0 \in rot.startTable : ~isEncryptedSecret(r0.secret)
    /\ rot.reEncrypted = 1 /\ rot.newlyEncrypted = 1

\* C8: a non-dry-run rotation is all-or-nothing: when a row cannot be
\* processed the call rejects (it never returns after skipping such a row),
\* and after a rejected call every row, the ones processed before the failing
\* one included, holds its pre-rotation value.
C8_AllOrNothing ==
    /\ (rot.pc = "threw" /\ ~rot.dryRun) => secretsTable = rot.startTable
    /\ RealRotationReturned =>
          \A r0 \in rot.startTable :
              isEncryptedSecret(r0.secret) =>
                  decryptSecretValueWithKey(r0.secret, RotationOldKey).ok

\* a rotation has rejected at its second row, after the first row's update
\* had been issued inside the transaction
C8_Witness ==
    /\ rot.pc = "threw"
    /\ ~rot.dryRun
    /\ rot.i = 2
    /\ rot.reEncrypted + rot.newlyEncrypted = 1

\* C9: rotateSecretEncryptionKey with dryRun: true writes nothing: from the
\* call to its return or throw the secret table is what it was at the call
\* and no update is pending.
C9_DryRunWritesNothing ==
    (rot.dryRun /\ rot.pc # "idle") =>
        /\ secretsTable = rot.startTable
        /\ rot.writes = {}

\* a dry run over an encrypted and a plaintext row has returned its counts
C9_Witness ==
    /\ rot.dryRun
    /\ rot.pc = "returned"
    /\ rot.reEncrypted = 1
    /\ rot.newlyEncrypted = 1

\* C10: after any sequence of SecretModel.create and SecretModel.update
\* calls, the secret column of every row those calls created or updated is an
\* encrypted wrapper.
C10_TouchedRowsEncrypted ==
    \A r \in secretsTable :
        r.id \in secretTouched => isEncryptedSecret(r.secret)

\* C10, amended: after any sequence of SecretModel.create and
\* SecretModel.update calls, the secret column of every row that create
\* inserted, or that an update carrying a secret updated, is an encrypted
\* wrapper.
C10_WrittenSecretsEncrypted ==
    \A r \in secretsTable :
        r.id \in secretWritten => isEncryptedSecret(r.secret)

\* a row inserted as legacy plaintext has been given a new secret by
\* SecretModel.update, and another one has been updated without a secret
C10_Witness ==
    /\ \E r \in secretsTable :
          /\ r.id \in secretWritten
          /\ r.secret = encryptSecretValue(PlainObject("c2"), "iv2")
          /\ r.name = "n1"
    /\ \E r \in secretsTable :
          /\ r.id \in secretTouched \ secretWritten
          /\ r.name = "n2"
\* the stored row a returned row was read from
StoredRow(id) == CHOOSE r \in secretsTable : r.id = id

\* C11: every SecretModel read path (the values create and update return,
\* findById, findByName, findByIds) hands the caller the rows it asked for
\* with the plaintext secret: a row stored as an encrypted wrapper comes back
\* as the object that was encrypted, a legacy plaintext row comes back
\* unchanged, the other columns are the stored ones; create never throws, and
\* a read throws only on a wrapper that does not decrypt under the configured
\* secret.
C11_ReadsReturnPlaintext ==
    /\ secretRead.op = "create" => ~secretRead.threw /\ secretRead.rows # {}
    /\ secretRead.threw =>
          \E r \in secretsTable :
              /\ r.id \in secretRead.ids
              /\ isEncryptedSecret(r.secret)
              /\ ~decryptSecretValue(r.secret).ok
    /\ (secretRead.op # "none" /\ ~secretRead.threw) =>
          /\ {ret.id : ret \in secretRead.rows}
                = secretRead.ids \cap {r.id : r \in secretsTable}
          /\ \A ret \in secretRead.rows :
                /\ ret.name = StoredRow(ret.id).name
                /\ ~isEncryptedSecret(ret.secret)
                /\ IF isEncryptedSecret(StoredRow(ret.id).secret)
                   THEN ret.secret = PlainObject(StoredRow(ret.id).secret.content)
                   ELSE ret.secret = StoredRow(ret.id).secret

\* findByIds has returned an encrypted row decrypted together with a legacy
\* plaintext row
C11_Witness ==
    /\ secretRead.op = "findByIds"
    /\ ~secretRead.threw
    /\ \E ret \in secretRead.rows : isEncryptedSecret(StoredRow(ret.id).secret)
    /\ \E ret \in secretRead.rows : ~isEncryptedSecret(StoredRow(ret.id).secret)
(***************************************************************************)
(* Claims about SSO providers                                              *)
(***************************************************************************)
SsoReturned(p, ops) == sso[p].pc = "returned" /\ sso[p].op \in ops

\* C12: SsoProviderModel.findById, update and delete called with an
\* organization id other than the one the provider row belongs to return
\* null, null and false, hand out no row of another organization, and change
\* or delete no row of another organization.
C12_TenantIsolation ==
    \A p \in SsoProcs :
        /\ sso[p].wroteOrgs \subseteq {sso[p].organizationId}
        /\ (SsoReturned(p, {"findById", "update", "delete"}) /\ sso[p].foreign) =>
              /\ sso[p].rows = {}
              /\ ~sso[p].deleted
        /\ SsoReturned(p, {"findById", "update", "findAll"}) =>
              \A ret \in sso[p].rows : ret.organizationId = sso[p].organizationId

\* a delete aimed at another organization's provider has returned false, and
\* the provider is still there as its owner last updated it
C12_Witness ==
    \E p \in SsoProcs, r \in ssoProviders :
        /\ SsoReturned(p, {"delete"})
        /\ sso[p].foreign
        /\ sso[p].id = r.id
        /\ sso[p].organizationId # r.organizationId
        /\ r.issuer = "i2"

SensitiveFields == {"oidcConfig", "samlConfig", "issuer", "domain", "organizationId"}

\* C13: findAllPublic returns, for every provider of every organization, an
\* object with exactly the fields id and providerId, and none of oidcConfig,
\* samlConfig, issuer, domain, organizationId.
C13_PublicFieldsOnly ==
    \A p \in SsoProcs :
        SsoReturned(p, {"findAllPublic"}) =>
            /\ \A ret \in sso[p].rows :
                  /\ DOMAIN ret = {"id", "providerId"}
                  /\ DOMAIN ret \cap SensitiveFields = {}
            /\ \A r \in sso[p].tableAtCall :
                  \E ret \in sso[p].rows : ret.id = r.id /\ ret.providerId = r.providerId
            /\ Cardinality(sso[p].rows) = Cardinality(sso[p].tableAtCall)

\* findAllPublic has returned the providers of two organizations, one of
\* them holding an OIDC configuration
C13_Witness ==
    \E p \in SsoProcs :
        /\ SsoReturned(p, {"findAllPublic"})
        /\ Cardinality(sso[p].rows) = 2
        /\ {r.organizationId : r \in sso[p].tableAtCall} = OrganizationIds
        /\ \E r \in sso[p].tableAtCall : r.oidcConfig # "null"
(***************************************************************************)
(* Claims about the A2A routes                                             *)
(***************************************************************************)
\* the request carries a bearer token that is valid for the agent owning the
\* requested prompt
TokenValidForPromptAgent ==
    /\ a2a.header.scheme = "Bearer"
    /\ a2a.promptId \in DOMAIN PromptAgent
    /\ a2a.header.token \in DOMAIN TokenTable
    /\ TokenTable[a2a.header.token].agentId = PromptAgent[a2a.promptId]

\* C14: the GET route sends an AgentCard, and the POST route fetches MCP tools
\* or invokes the LLM, only for a request whose bearer token
\* validateMCPGatewayToken accepts for the agent that owns the requested prompt.
C14_TokenBeforeCardOrExecution ==
    (a2a.response.kind = "card" \/ a2a.toolsFetched \/ a2a.llmInvoked
        \/ a2a.pc \in {"fetch_tools", "create_model", "stream"})
    => TokenValidForPromptAgent

\* a POST with a team token of the prompt's agent has run the LLM
C14_Witness ==
    /\ a2a.route = "POST"
    /\ a2a.llmInvoked
    /\ a2a.userId = "system"
    /\ a2a.response.kind = "result"

\* C15: whatever fails while POST {a2aBase}/:promptId is handled, the
\* response is HTTP 200 with a JSON-RPC error (code -32602, -32600 or -32603),
\* no result, and the request's id; the only other response is the result.
C15_PostFailuresInEnvelope ==
    (a2a.route = "POST" /\ a2a.pc = "responded") =>
        /\ a2a.response.status = 200
        /\ a2a.response.id = a2a.id
        /\ a2a.response.kind \in {"error", "result"}
        /\ a2a.response.kind = "error" => a2a.response.code \in {-32602, -32600, -32603}

(***************************************************************************)
(* Claims about the organization routes                                    *)
(***************************************************************************)
\* the routes that can write theme, customFont, logo or logoType
OrgWriteRoutes == {"PUT appearance", "POST logo", "DELETE logo", "PATCH"}

\* C16: through every organization route that can write theme, customFont,
\* logo or logoType, a request of a caller who is not an admin is rejected
\* (its status is not 200) and leaves the stored organization as it was before.
C16_NonAdminWritesRejected ==
    (orgReply.route \in OrgWriteRoutes /\ ~orgReply.user.isAdmin) =>
        /\ orgReply.status # 200
        /\ organizationsTable = orgReply.before

StoredLogos(tbl) == {[id |-> r.id, logo |-> r.logo] : r \in tbl}

\* C17: on POST /api/organization/logo and PATCH /api/organization, a logo
\* string without the data:image/png;base64, prefix or longer than
\* 2.66*1024*1024 characters is answered with a 400 validation error and the
\* stored logo stays as it was (callers that pass the route's access checks,
\* organization found).
C17_InvalidLogoIs400 ==
    (/\ orgReply.route \in {"POST logo", "PATCH"}
     /\ orgReply.user.isAdmin
     /\ orgReply.status # 404
     /\ orgReply.hasLogo
     /\ orgReply.logo.isString
     /\ ~startsWithPng(orgReply.logo) \/ exceedsMaxSize(orgReply.logo)) =>
        /\ orgReply.status = 400
        /\ orgReply.type = "validation_error"
        /\ StoredLogos(organizationsTable) = StoredLogos(orgReply.before)

(***************************************************************************)
(* Claims about interactions                                               *)
(***************************************************************************)
InteractionRows == {interactionsTable[i] : i \in DOMAIN interactionsTable}

\* C18: checkIfChatIsTrusted(chatId) is true exactly when no interaction of
\* that chat has trusted = false; interactions of other chats do not count.
C18_TrustedIffNoUntrusted ==
    interactionRead.op = "checkIfChatIsTrusted" =>
        (interactionRead.trusted <=>
            ~\E row \in InteractionRows : row.chatId = interactionRead.chatId /\ row.trusted = FALSE)

\* the chat was checked as trusted while another chat holds an untrusted
\* interaction and the chat itself has a trusted one
C18_Witness ==
    /\ interactionRead.op = "checkIfChatIsTrusted"
    /\ interactionRead.trusted
    /\ \E row \in InteractionRows : row.chatId = interactionRead.chatId /\ row.trusted
    /\ \E row \in InteractionRows : row.chatId # interactionRead.chatId /\ ~row.trusted

\* the tool_call_id strings of the blocked tool-role interactions of a chat
BlockedToolIds(chatId) ==
    {row.content.tool_call_id.text :
        row \in {r \in InteractionRows :
                    /\ r.chatId = chatId
                    /\ r.blocked
                    /\ r.content.role = "tool"
                    /\ r.content.tool_call_id.present}}

\* C19 as stated: getBlockedToolCallIds(chatId) is exactly the set of
\* tool_call_id values of the chat's interactions that are blocked and of
\* role tool.
C19_ExactlyBlockedToolIds ==
    interactionRead.op = "getBlockedToolCallIds" =>
        interactionRead.ids = BlockedToolIds(interactionRead.chatId)

\* C19 amended: getBlockedToolCallIds(chatId) is exactly the set of non-empty
\* tool_call_id values of the chat's interactions that are blocked and of
\* role tool; a blocked tool interaction whose tool_call_id is the empty
\* string contributes nothing.
C19_NonEmptyBlockedToolIds ==
    interactionRead.op = "getBlockedToolCallIds" =>
        interactionRead.ids = BlockedToolIds(interactionRead.chatId) \ {""}

\* two blocked tool interactions of the chat share one id and the result
\* holds that id alone
C19_Witness ==
    /\ interactionRead.op = "getBlockedToolCallIds"
    /\ interactionRead.ids = {"call_1"}
    /\ \E i, j \in DOMAIN interactionsTable :
          /\ i # j
          /\ \A k \in {i, j} :
                /\ interactionsTable[k].chatId = interactionRead.chatId
                /\ interactionsTable[k].blocked
                /\ interactionsTable[k].content = [role |-> "tool", tool_call_id |-> ToolCallId("call_1")]

(***************************************************************************)
(* Claims about agent access                                               *)
(***************************************************************************)
\* C20 as stated: for every user id, agent id and isAgentAdmin flag,
\* userHasAgentAccess is true exactly when the agent id is an element of
\* getUserAccessibleAgentIds.
C20_SingleAgentFormOfList ==
    accessRead.op = "access" =>
        (accessRead.hasAccess <=> accessRead.agentId \in accessRead.accessibleIds)

\* C20 amended: the two agree for every caller that is not an agent admin,
\* and for an agent admin on every id of a stored agent; for an agent admin
\* and an id of no stored agent userHasAgentAccess is true although the list
\* does not hold the id.
C20_SingleAgentFormForStoredAgents ==
    accessRead.op = "access" =>
        IF accessRead.isAgentAdmin /\ accessRead.agentId \notin agentsTable
        THEN accessRead.hasAccess /\ accessRead.agentId \notin accessRead.accessibleIds
        ELSE accessRead.hasAccess <=> accessRead.agentId \in accessRead.accessibleIds

\* a user who is not an agent admin has access to one stored agent through a
\* team and is asked about it, while the other stored agent is out of reach
C20_Witness ==
    /\ accessRead.op = "access"
    /\ ~accessRead.isAgentAdmin
    /\ accessRead.hasAccess
    /\ agentsTable = TeamAgentIds
    /\ accessRead.accessibleIds = {accessRead.agentId}

(***************************************************************************)
(* Claims about isTransientDbError                                         *)
(***************************************************************************)
\* the codes and message fragments as the specification lists them
ListedCodes == {"08000", "08001", "08003", "08004", "08006", "57P01", "57P02", "57P03"}
ListedFragments ==
    {<<"ECONNREFUSED">>, <<"ECONNRESET">>, <<"EPIPE">>, <<"ETIMEDOUT">>,
     <<"Connection", "terminated">>, <<"timeout", "expired">>}

\* an Error that carries a listed code or whose message contains a listed fragment
Listed(value) ==
    /\ value.isError
    /\ \/ value.code \in ListedCodes
       \/ \E f \in ListedFragments :
             \E i \in 0..(Len(value.message) - Len(f)) :
                 \A j \in 1..Len(f) : value.message[i + j] = f[j]

\* the number of wrappers around errChain[i] (in a cyclic chain: on the
\* first way round)
WrappersAround(i) == Len(errChain) - i

\* C21: isTransientDbError is true for an Error with a listed code or message
\* fragment, also when that error is wrapped up to 5 levels deep in a cause
\* chain; it is false when no error of the chain is such an error and for
\* every input that is not an Error.
C21_ClassifiesListedErrors ==
    errResult.called =>
        /\ (\E i \in DOMAIN errChain : Listed(errChain[i]) /\ WrappersAround(i) <= 5)
              => errResult.result
        /\ (\A i \in DOMAIN errChain : ~Listed(errChain[i])) => ~errResult.result
        /\ (errChain = <<>> \/ ~errChain[Outermost].isError) => ~errResult.result

\* an error with a listed code under exactly 5 wrappers without listed
\* fragments was classified as transient
C21_Witness ==
    /\ errResult.called
    /\ errResult.result
    /\ Len(errChain) = 6
    /\ errChain[1].code \in ListedCodes
    /\ \A i \in 2..6 : ~Listed(errChain[i])

\* C22 as stated: for any error whose cause chain has more than 5 wrappers,
\* a cyclic chain included, isTransientDbError returns false after
\* inspecting a bounded number of errors.
C22_DeepChainsAreNonTransient ==
    (errResult.called /\ (Len(errChain) > 6 \/ errCyclic)) =>
        /\ ~errResult.result
        /\ errResult.inspected <= MAX_CAUSE_DEPTH + 1

\* the error met after following d causes from the outermost error
ErrorAtDepth(d) ==
    IF d < Len(errChain) THEN errChain[Len(errChain) - d]
    ELSE errChain[Len(errChain) - (d % Len(errChain))]

\* the depths the cause chain has: all of them when it is cyclic
HasDepth(d) == errChain # <<>> /\ (d < Len(errChain) \/ errCyclic)

\* C22 amended: an error lying more than 5 causes below the outermost error
\* is never looked at: the result is true exactly when one of the first 6
\* errors of the chain is an Error with a listed code or fragment, so a chain
\* of more than 5 wrappers (cyclic chains included) without such an error
\* among its first 6 yields false; at most 6 errors are inspected.
C22_OnlyFirstSixInspected ==
    errResult.called =>
        /\ errResult.inspected <= MAX_CAUSE_DEPTH + 1
        /\ errResult.result <=>
              \E d \in 0..MAX_CAUSE_DEPTH :
                  /\ HasDepth(d)
                  /\ Listed(ErrorAtDepth(d))
                  /\ \A c \in 0..d : ErrorAtDepth(c).isError

\* a listed error under 6 plain wrappers was classified as non-transient
\* after 6 inspections
C22_Witness ==
    /\ errResult.called
    /\ ~errResult.result
    /\ errResult.inspected = 6
    /\ Len(errChain) = 7
    /\ Listed(errChain[1])
    /\ ~errCyclic

(***************************************************************************)
(* Claims about the frontend guards                                        *)
(***************************************************************************)
\* C23: while the auth or permission check is in flight (inProgress), and in
\* every commit in which a redirect fires (router.push is called), WithAuthCheck
\* renders nothing.
C23_NothingRenderedOnRedirect ==
    (wacRendered # "unrendered" /\ (inProgress(wac) \/ wacPushed # {})) =>
        wacRendered = "null"

\* C24: WithPermission / WithPermissions render their children only if the
\* user is granted every (resource, action) pair of the given permission list,
\* lists naming several actions on one resource included.
C24_ChildrenOnlyWithEveryPermission ==
    wpRendered = "children" =>
        \A i \in DOMAIN wpPermissions : SplitPermission(wpPermissions[i]) \in wpGranted

(***************************************************************************)
(* Claims about MemberModel                                                *)
(***************************************************************************)
\* the member rows the first argument identifies, by id or by user id
IdentifiedMembers(call) ==
    {row \in call.before :
        row.id = call.memberIdOrUserId \/ row.userId = call.memberIdOrUserId}

\* C25: deleteByMemberOrUserId never removes a membership of a different
\* organization: when the member the first argument identifies does not belong
\* to the given organizationId, the call returns undefined and the member row
\* is still present.
C25_OtherOrganizationUntouched ==
    (/\ memberCall # NoMemberCall
     /\ IdentifiedMembers(memberCall) # {}
     /\ \A row \in IdentifiedMembers(memberCall) :
           row.organizationId # memberCall.organizationId) =>
        /\ memberCall.returned = Undefined
        /\ IdentifiedMembers(memberCall) \subseteq membersTable

(***************************************************************************)
(* Claims about theme and font resolution                                  *)
(***************************************************************************)
\* the theme and font ids the provider resolves: preview override, else the
\* organization's persisted choice
EffectiveThemeId == OrElse(previewTheme, appearance.theme)
EffectiveFontId == OrElse(previewFont, appearance.customFont)

\* C26: after the provider's effect ran with the appearance loaded, an
\* effective theme id that is absent or not in the catalog leaves the
\* "cosmic-night" palette applied, and a font id that is absent or unknown
\* leaves the "lato" font stack applied (the values of the stylesheet, which no
\* effect has replaced, count as the defaults).
C26_FallsBackToDefaults ==
    (themeEffect = "provider" /\ appearance.loaded) =>
        /\ EffectiveThemeId \notin ThemeCatalog =>
              rootStyle.palette \in {<<"cosmic-night", colorMode>>, StylesheetPalette}
        /\ EffectiveFontId \notin FontCatalog => rootStyle.fontSans \in {"lato", Stylesheet}

(***************************************************************************)
(* Claims about InvitationModel                                            *)
(***************************************************************************)
\* the invitation an accept call named, as it was before the call
AcceptedInvitations == acceptCall.invitations

\* the Member rows of the accepting user for the invitation's organization
MembersFor(members, user, invitation) ==
    {row \in members : row.userId = user /\ row.organizationId = invitation.organizationId}

\* C27: accept called for an existing invitation, whatever its status
\* (pending, accepted, declined) and whether or not it is expired, does not
\* throw and creates one more Member row for the user.
C27_AcceptAlwaysCreatesMember ==
    (acceptCall # NoAcceptCall /\ AcceptedInvitations # {}) =>
        \A invitation \in AcceptedInvitations :
            /\ ~acceptCall.threw
            /\ Cardinality(MembersFor(membersTable, acceptCall.user, invitation)) =
                  Cardinality(MembersFor(acceptCall.members, acceptCall.user, invitation)) + 1

\* accept ran a second time for one invitation: it was already accepted and
\* the user already had a Member row, and now has two
C27_Witness ==
    /\ acceptCall # NoAcceptCall
    /\ \E invitation \in AcceptedInvitations :
          /\ invitation.status = "accepted"
          /\ Cardinality(MembersFor(membersTable, acceptCall.user, invitation)) = 2

\* accept ran for a declined and for an expired invitation
C27_WitnessDeclinedExpired ==
    /\ acceptCall # NoAcceptCall
    /\ \E invitation \in AcceptedInvitations :
          invitation.status = "declined" /\ invitation.expired

(***************************************************************************)
(* Claims about syncAgentLabels racing with pruning                        *)
(***************************************************************************)
\* the rows of a table that are committed and not deleted
CommittedRows(tbl) == {r \in tbl : r.ins = 0 /\ r.del = 0}

\* C28: in every interleaving of syncAgentLabels calls with pruneKeysAndValues
\* runs, every committed agent-label junction row references a key row and a
\* value row that exist, and no syncAgentLabels call fails because the row it
\* got or created has vanished.
C28_PruneNeverTakesUsedRows ==
    /\ \A j \in CommittedRows(agentLabels) :
          /\ \E k \in labelKeys : k.id = j.keyId
          /\ \E v \in labelValues : v.id = j.valueId
    /\ \A p \in SyncProcs : sync[p].pc # "rejected"

(***************************************************************************)
(* Claims about concurrent getOrCreateDefaultOrganization calls            *)
(***************************************************************************)
\* the requests that reached getOrCreateDefaultOrganization and have replied
FinishedOrgCalls == {p \in OrgCallers : orgCalls[p].pc = "replied" /\ orgCalls[p].status # 401}

\* C29: when several getOrCreateDefaultOrganization calls run concurrently on
\* an empty organization table, no call fails, all calls return the same
\* organization row, and afterwards exactly one organization row exists.
C29_ConcurrentCallsAllSucceed ==
    /\ \A p \in FinishedOrgCalls :
          /\ orgCalls[p].status = 200
          /\ \A q \in FinishedOrgCalls : orgCalls[q].organization = orgCalls[p].organization
    /\ FinishedOrgCalls # {} => Cardinality(organizationsTable) = 1

(***************************************************************************)
(* Claims about the README dialog                                          *)
(***************************************************************************)
\* the newest fetch started for the selected server is still in flight
CurrentFetchInFlight ==
    \E f \in readmeFetches : f.of = readmeServer /\ \A g \in readmeFetches : g.id <= f.id

\* C30: the README dialog only displays content of the selected server: the
\* completion of a fetch started for an earlier selection never replaces the
\* content, the error or the loading state shown for the current server.
C30_OnlyCurrentServerShown ==
    readmeServer # NoServer =>
        /\ (~readmeLoading /\ readmeError = NoError /\ readmeContent # NoContent) => readmeContent.of = readmeServer.name
        /\ readmeError # NoError => readmeError.of = readmeServer.name
        /\ readmeLoading <=> CurrentFetchInFlight

====
